---------------------------- MODULE Spec2Model ----------------------------
(***************************************************************************)
(* IPv6 overlap checker: the address codec (IPv6Utils) and the overlap     *)
(* engine (OverlapEngine) of src/js/core/overlap-engine.js, and the page   *)
(* that calls them (OverlapChecker) of src/js/features/overlap-checker.js. *)
(*                                                                         *)
(* Texts are TLA+ strings, read character by character as the JavaScript   *)
(* code reads them.  A BigInt is an arbitrary-precision integer: a sign    *)
(* and a magnitude, the magnitude a little-endian sequence of 16-bit limbs *)
(* (one limb per address group) without leading zero limbs.  A thrown      *)
(* Error is the record [threw |-> TRUE, val |-> message].  An object field *)
(* that is null or undefined is a record field that is absent.             *)
(***************************************************************************)
EXTENDS Integers, Sequences, FiniteSets, TLC

VARIABLES request, response, cache, utilsCache, now, overlapChecker

vars == <<request, response, cache, utilsCache, now, overlapChecker>>

-----------------------------------------------------------------------------
(* JavaScript string primitives *)

Char(s, i) == SubSeq(s, i, i)

Throw(msg) == [threw |-> TRUE, val |-> msg]

Return(v) == [threw |-> FALSE, val |-> v]

RECURSIVE indexOf(_, _, _)
indexOf(s, sub, from) ==
  IF from + Len(sub) - 1 > Len(s) THEN 0
  ELSE IF SubSeq(s, from, from + Len(sub) - 1) = sub THEN from
  ELSE indexOf(s, sub, from + 1)

includes(s, sub) == indexOf(s, sub, 1) # 0

RECURSIVE lastIndexOf(_, _, _)
lastIndexOf(s, c, from) ==
  IF from < 1 THEN 0
  ELSE IF Char(s, from) = c THEN from
  ELSE lastIndexOf(s, c, from - 1)

RECURSIVE split(_, _)
split(s, sep) ==
  LET k == indexOf(s, sep, 1)
  IN IF k = 0 THEN <<s>>
     ELSE <<SubSeq(s, 1, k - 1)>> \o split(SubSeq(s, k + Len(sep), Len(s)), sep)

RECURSIVE join(_, _)
join(parts, sep) ==
  IF Len(parts) = 0 THEN ""
  ELSE IF Len(parts) = 1 THEN parts[1]
  ELSE parts[1] \o sep \o join(Tail(parts), sep)

RECURSIVE trimStart(_)
trimStart(s) ==
  IF Len(s) > 0 /\ Char(s, 1) = " " THEN trimStart(SubSeq(s, 2, Len(s))) ELSE s

RECURSIVE trimEnd(_)
trimEnd(s) ==
  IF Len(s) > 0 /\ Char(s, Len(s)) = " " THEN trimEnd(SubSeq(s, 1, Len(s) - 1)) ELSE s

trim(s) == trimEnd(trimStart(s))

RECURSIVE padStart(_, _, _)
padStart(s, n, c) == IF Len(s) >= n THEN s ELSE padStart(c \o s, n, c)

RECURSIVE stripLeadingZeros(_)
stripLeadingZeros(s) ==
  IF Len(s) > 0 /\ Char(s, 1) = "0" THEN stripLeadingZeros(SubSeq(s, 2, Len(s))) ELSE s

stripBrackets(s) ==
  LET a == IF Len(s) > 0 /\ Char(s, 1) = "[" THEN SubSeq(s, 2, Len(s)) ELSE s
  IN IF Len(a) > 0 /\ Char(a, Len(a)) = "]" THEN SubSeq(a, 1, Len(a) - 1) ELSE a

filterNonEmpty(parts) == SelectSeq(parts, LAMBDA g : g # "")

DecDigits == <<"0", "1", "2", "3", "4", "5", "6", "7", "8", "9">>

LowerHex == <<"0", "1", "2", "3", "4", "5", "6", "7", "8", "9",
              "a", "b", "c", "d", "e", "f">>

UpperHex == <<"0", "1", "2", "3", "4", "5", "6", "7", "8", "9",
              "A", "B", "C", "D", "E", "F">>

isDigit(c) == \E i \in 1..10 : DecDigits[i] = c

isHexChar(c) == \E i \in 1..16 : LowerHex[i] = c \/ UpperHex[i] = c

digitVal(c) == CHOOSE i \in 0..9 : DecDigits[i + 1] = c

hexVal(c) == CHOOSE i \in 0..15 : LowerHex[i + 1] = c \/ UpperHex[i + 1] = c

allDigits(s) == \A i \in 1..Len(s) : isDigit(Char(s, i))

allHexChars(s) == \A i \in 1..Len(s) : isHexChar(Char(s, i))

\* /^[0-9a-fA-F:]+$/ on a non-empty text
allHexOrColon(s) == \A i \in 1..Len(s) : isHexChar(Char(s, i)) \/ Char(s, i) = ":"

RECURSIVE decimalValue(_)
decimalValue(s) ==
  IF Len(s) = 0 THEN 0
  ELSE 10 * decimalValue(SubSeq(s, 1, Len(s) - 1)) + digitVal(Char(s, Len(s)))

RECURSIVE leadingDigits(_)
leadingDigits(s) ==
  IF Len(s) > 0 /\ isDigit(Char(s, 1))
  THEN Char(s, 1) \o leadingDigits(SubSeq(s, 2, Len(s)))
  ELSE ""

NaN == -1

parseInt(s) ==
  LET d == leadingDigits(trimStart(s))
  IN IF d = "" THEN NaN ELSE decimalValue(d)

RECURSIVE toDecimalString(_)
toDecimalString(n) ==
  IF n < 10 THEN DecDigits[n + 1]
  ELSE toDecimalString(n \div 10) \o DecDigits[(n % 10) + 1]

-----------------------------------------------------------------------------
(* BigInt: exact integer arithmetic, as the engine's 0n / 1n << k / & / + / - *)

LimbBits == 16

RECURSIVE pow2(_)
pow2(k) == IF k = 0 THEN 1 ELSE 2 * pow2(k - 1)

LimbBase == pow2(LimbBits)

RECURSIVE normalize(_)
normalize(m) ==
  IF Len(m) > 0 /\ m[Len(m)] = 0 THEN normalize(SubSeq(m, 1, Len(m) - 1)) ELSE m

limbAt(m, i) == IF i <= Len(m) THEN m[i] ELSE 0

maxLen(a, b) == IF Len(a) >= Len(b) THEN Len(a) ELSE Len(b)

\* -1, 0 or 1 as the magnitude a is below, equal to or above b
RECURSIVE magCmpFrom(_, _, _)
magCmpFrom(a, b, i) ==
  IF i = 0 THEN 0
  ELSE IF limbAt(a, i) < limbAt(b, i) THEN -1
  ELSE IF limbAt(a, i) > limbAt(b, i) THEN 1
  ELSE magCmpFrom(a, b, i - 1)

magCmp(a, b) == magCmpFrom(a, b, maxLen(a, b))

RECURSIVE magAddFrom(_, _, _, _)
magAddFrom(a, b, i, carry) ==
  IF i > maxLen(a, b) THEN (IF carry = 0 THEN <<>> ELSE <<carry>>)
  ELSE LET t == limbAt(a, i) + limbAt(b, i) + carry
       IN <<t % LimbBase>> \o magAddFrom(a, b, i + 1, t \div LimbBase)

magAdd(a, b) == normalize(magAddFrom(a, b, 1, 0))

\* a - b for magnitudes with a >= b
RECURSIVE magSubFrom(_, _, _, _)
magSubFrom(a, b, i, borrow) ==
  IF i > Len(a) THEN <<>>
  ELSE LET t == limbAt(a, i) - limbAt(b, i) - borrow
       IN IF t < 0 THEN <<t + LimbBase>> \o magSubFrom(a, b, i + 1, 1)
          ELSE <<t>> \o magSubFrom(a, b, i + 1, 0)

magSub(a, b) == normalize(magSubFrom(a, b, 1, 0))

BigInt(neg, mag) == [neg |-> neg /\ mag # <<>>, mag |-> mag]

RECURSIVE limbsOf(_)
limbsOf(n) == IF n = 0 THEN <<>> ELSE <<n % LimbBase>> \o limbsOf(n \div LimbBase)

\* the BigInt literal n (0n, 1n, 128n, ...)
big(n) == BigInt(FALSE, limbsOf(n))

bigAdd(x, y) ==
  IF x.neg = y.neg THEN BigInt(x.neg, magAdd(x.mag, y.mag))
  ELSE IF magCmp(x.mag, y.mag) >= 0 THEN BigInt(x.neg, magSub(x.mag, y.mag))
  ELSE BigInt(y.neg, magSub(y.mag, x.mag))

bigSub(x, y) == bigAdd(x, BigInt(~y.neg, y.mag))

bigCmp(x, y) ==
  IF x.neg /\ ~y.neg THEN -1
  ELSE IF ~x.neg /\ y.neg THEN 1
  ELSE IF x.neg THEN magCmp(y.mag, x.mag)
  ELSE magCmp(x.mag, y.mag)

RECURSIVE magScaleFrom(_, _, _, _)
magScaleFrom(m, f, i, carry) ==
  IF i > Len(m) THEN (IF carry = 0 THEN <<>> ELSE <<carry>>)
  ELSE LET t == m[i] * f + carry
       IN <<t % LimbBase>> \o magScaleFrom(m, f, i + 1, t \div LimbBase)

\* x << k for a non-negative x and a number of bits k >= 0
bigShiftLeft(x, k) ==
  BigInt(FALSE, normalize([i \in 1..(k \div LimbBits) |-> 0]
                          \o magScaleFrom(x.mag, pow2(k % LimbBits), 1, 0)))

RECURSIVE andBits(_, _, _)
andBits(a, b, n) ==
  IF n = 0 THEN 0
  ELSE (IF a % 2 = 1 /\ b % 2 = 1 THEN 1 ELSE 0)
       + 2 * andBits(a \div 2, b \div 2, n - 1)

\* x & y for non-negative x and y
bigAnd(x, y) ==
  BigInt(FALSE, normalize([i \in 1..maxLen(x.mag, y.mag) |->
                             andBits(limbAt(x.mag, i), limbAt(y.mag, i), LimbBits)]))

\* BigInt('0x' + hex): SyntaxError unless hex is a non-empty run of hex digits
RECURSIVE hexValue(_)
hexValue(g) ==
  IF Len(g) = 0 THEN 0
  ELSE 16 * hexValue(SubSeq(g, 1, Len(g) - 1)) + hexVal(Char(g, Len(g)))

RECURSIVE hexLimbs(_)
hexLimbs(hex) ==
  IF Len(hex) = 0 THEN <<>>
  ELSE IF Len(hex) <= 4 THEN <<hexValue(hex)>>
  ELSE <<hexValue(SubSeq(hex, Len(hex) - 3, Len(hex)))>>
       \o hexLimbs(SubSeq(hex, 1, Len(hex) - 4))

bigFromHex(hex) ==
  IF Len(hex) = 0 \/ ~allHexChars(hex)
  THEN Throw("Cannot convert 0x" \o hex \o " to a BigInt")
  ELSE Return(BigInt(FALSE, normalize(hexLimbs(hex))))

limbHex(v) ==
  LowerHex[(v \div 4096) + 1] \o LowerHex[((v \div 256) % 16) + 1]
    \o LowerHex[((v \div 16) % 16) + 1] \o LowerHex[(v % 16) + 1]

RECURSIVE magHex(_)
magHex(m) == IF Len(m) = 0 THEN "" ELSE magHex(Tail(m)) \o limbHex(m[1])

\* x.toString(16)
bigToString16(x) ==
  IF x.mag = <<>> THEN "0"
  ELSE (IF x.neg THEN "-" ELSE "") \o stripLeadingZeros(magHex(x.mag))

bigMulSmall(x, f) == BigInt(x.neg, normalize(magScaleFrom(x.mag, f, 1, 0)))

\* quotient and remainder of the magnitude n by the magnitude d # 0
RECURSIVE magDivMod(_, _)
magDivMod(n, d) ==
  IF magCmp(n, d) < 0 THEN [q |-> <<>>, r |-> n]
  ELSE LET h == magDivMod(n, magAdd(d, d))
       IN IF magCmp(h.r, d) >= 0
          THEN [q |-> magAdd(magAdd(h.q, h.q), <<1>>), r |-> magSub(h.r, d)]
          ELSE [q |-> magAdd(h.q, h.q), r |-> h.r]

\* x / y on BigInts truncates toward zero; y = 0n throws a RangeError
bigDiv(x, y) ==
  IF y.mag = <<>> THEN Throw("Division by zero")
  ELSE Return(BigInt(x.neg # y.neg, magDivMod(x.mag, y.mag).q))

\* quotient (limbs) and remainder of a magnitude by a small number
RECURSIVE magDivSmall(_, _)
magDivSmall(m, d) ==
  IF Len(m) = 0 THEN [q |-> <<>>, r |-> 0]
  ELSE LET hi == magDivSmall(Tail(m), d)
       IN [q |-> <<(hi.r * LimbBase + m[1]) \div d>> \o hi.q,
           r |-> (hi.r * LimbBase + m[1]) % d]

RECURSIVE magDecimal(_)
magDecimal(m) ==
  IF Len(m) = 0 THEN ""
  ELSE LET dm == magDivSmall(m, 10)
       IN magDecimal(normalize(dm.q)) \o DecDigits[dm.r + 1]

\* x.toString()
bigToString(x) ==
  IF x.mag = <<>> THEN "0" ELSE (IF x.neg THEN "-" ELSE "") \o magDecimal(x.mag)

\* Number(x), for the values below 2^31 the engine converts
RECURSIVE magNumber(_)
magNumber(m) == IF Len(m) = 0 THEN 0 ELSE m[1] + LimbBase * magNumber(Tail(m))

bigToNumber(x) == IF x.neg THEN 0 - magNumber(x.mag) ELSE magNumber(x.mag)

-----------------------------------------------------------------------------
(* IPv6Utils: the address codec.  The memoising wrappers (validateIPv6,    *)
(* expandAddress, compressAddress, ipv6ToBigInt, bigIntToIPv6,             *)
(* getNetworkInfo) store under a key made of the operation and its text    *)
(* what the computation below returns for that text, so a wrapper is       *)
(* written here as the computation it stores.  A function whose locals are *)
(* read several times is split into steps that receive those locals.       *)

\* the record r with field f set to v when present holds, and without f otherwise
withField(r, present, f, v) == IF present THEN r @@ (f :> v) ELSE r

has(r, f) == f \in DOMAIN r

startsWith(s, p) == Len(s) >= Len(p) /\ SubSeq(s, 1, Len(p)) = p

\* patterns.HEX_GROUP: /^[0-9a-fA-F]{1,4}$/
HEX_GROUP(g) == Len(g) >= 1 /\ Len(g) <= 4 /\ allHexChars(g)

\* part ? part.split(':').filter(g => g !== '') : []
colonGroups(part) == IF part = "" THEN <<>> ELSE filterNonEmpty(split(part, ":"))

allHexGroups(groups) == \A i \in 1..Len(groups) : HEX_GROUP(groups[i])

\* the first group that patterns.HEX_GROUP rejects, when there is one
firstBadGroup(groups) ==
  groups[CHOOSE i \in 1..Len(groups) :
           ~HEX_GROUP(groups[i]) /\ \A j \in 1..(i - 1) : HEX_GROUP(groups[j])]

validateCompressedFormat(address) ==
  LET parts == split(address, "::")
  IN IF Len(parts) # 2 THEN FALSE
     ELSE LET before == colonGroups(parts[1])
              after  == colonGroups(parts[2])
          IN IF Len(before) + Len(after) > 8 THEN FALSE
             ELSE allHexGroups(before \o after)

validateFullFormat(address) ==
  LET groups == split(address, ":")
  IN IF Len(groups) # 8 THEN FALSE ELSE allHexGroups(groups)

isValidFormat(address) ==
  IF address = "" THEN FALSE
  ELSE IF ~allHexOrColon(address) THEN FALSE
  ELSE IF Len(split(address, "::")) - 1 > 1 THEN FALSE
  ELSE IF includes(address, ":::") THEN FALSE
  ELSE IF includes(address, "::") THEN validateCompressedFormat(address)
  ELSE validateFullFormat(address)

padGroups(groups) == [i \in 1..Len(groups) |-> padStart(groups[i], 4, "0")]

\* performExpansion of a text with "::", once before and after are split
expandCompressedGroups(before, after) ==
  LET missingGroups == 8 - (Len(before) + Len(after))
      allGroups == before \o [i \in 1..missingGroups |-> "0000"] \o after
  IN IF missingGroups < 0 THEN Throw("Muitos grupos no endereço IPv6")
     ELSE IF ~allHexGroups(allGroups)
     THEN Throw("Grupo hexadecimal inválido: " \o firstBadGroup(allGroups))
     ELSE Return(join(padGroups(allGroups), ":"))

\* performExpansion of a text without "::", once it is split
expandFullGroups(groups) ==
  IF Len(groups) # 8 THEN Throw("Endereço IPv6 incompleto")
  ELSE Return(join(padGroups(groups), ":"))

\* performExpansion of a text with "::", once it is split there
expandCompressedParts(parts) ==
  expandCompressedGroups(colonGroups(parts[1]), colonGroups(parts[2]))

\* performExpansion once the brackets are taken off
expandStripped(addr) ==
  IF ~includes(addr, "::") THEN expandFullGroups(split(addr, ":"))
  ELSE expandCompressedParts(split(addr, "::"))

performExpansion(address) == expandStripped(stripBrackets(address))

expandAddress(address) == performExpansion(address)

\* g.replace(/^0+/, '') without the || '0': an all-zero group becomes empty
shortGroupEmpty(g) == stripLeadingZeros(g)

\* g.replace(/^0+/, '') || '0'
shortGroup(g) == IF stripLeadingZeros(g) = "" THEN "0" ELSE stripLeadingZeros(g)

shortGroups(groups) == [i \in 1..Len(groups) |-> shortGroup(groups[i])]

\* the scan of performCompression with >= for >: the last of the longest runs
RECURSIVE zeroRunScanLast(_, _, _, _, _, _)
zeroRunScanLast(groups, i, bestStart, bestLength, currentStart, currentLength) ==
  IF i > 8
  THEN IF currentLength >= bestLength
       THEN [bestStart |-> currentStart, bestLength |-> currentLength]
       ELSE [bestStart |-> bestStart, bestLength |-> bestLength]
  ELSE IF groups[i] = "0000"
  THEN zeroRunScanLast(groups, i + 1, bestStart, bestLength,
                       IF currentStart = -1 THEN i - 1 ELSE currentStart,
                       currentLength + 1)
  ELSE IF currentLength >= bestLength
  THEN zeroRunScanLast(groups, i + 1, currentStart, currentLength, -1, 0)
  ELSE zeroRunScanLast(groups, i + 1, bestStart, bestLength, -1, 0)

\* the scan of performCompression over groups i..8: [bestStart, bestLength]
RECURSIVE zeroRunScan(_, _, _, _, _, _)
zeroRunScan(groups, i, bestStart, bestLength, currentStart, currentLength) ==
  IF i > 8
  THEN IF currentLength > bestLength
       THEN [bestStart |-> currentStart, bestLength |-> currentLength]
       ELSE [bestStart |-> bestStart, bestLength |-> bestLength]
  ELSE IF groups[i] = "0000"
  THEN zeroRunScan(groups, i + 1, bestStart, bestLength,
                   IF currentStart = -1 THEN i - 1 ELSE currentStart,
                   currentLength + 1)
  ELSE IF currentLength > bestLength
  THEN zeroRunScan(groups, i + 1, currentStart, currentLength, -1, 0)
  ELSE zeroRunScan(groups, i + 1, bestStart, bestLength, -1, 0)

\* the text performCompression returns for the groups kept around the "::"
joinCompressed(before, after) ==
  IF Len(before) = 0 /\ Len(after) = 0 THEN "::"
  ELSE IF Len(before) = 0 THEN "::" \o join(after, ":")
  ELSE IF Len(after) = 0 THEN join(before, ":") \o "::"
  ELSE join(before, ":") \o "::" \o join(after, ":")

\* performCompression once the address is expanded; a throw returns the input
compressExpanded(address, expanded) ==
  IF expanded.threw THEN address
  ELSE LET groups == split(expanded.val, ":")
           best   == zeroRunScan(groups, 1, -1, 0, -1, 0)
       IN IF best.bestLength < 2 THEN join(shortGroups(groups), ":")
          ELSE joinCompressed(
                 shortGroups(SubSeq(groups, 1, best.bestStart)),
                 shortGroups(SubSeq(groups, best.bestStart + best.bestLength + 1,
                                    Len(groups))))

performCompression(address) == compressExpanded(address, expandAddress(address))

compressAddress(address) == performCompression(address)

\* getAddressType once the address is expanded
typeOfExpanded(expanded) ==
  IF expanded.threw THEN "Unknown"
  ELSE IF expanded.val = "0000:0000:0000:0000:0000:0000:0000:0001" THEN "Loopback"
  ELSE IF expanded.val = "0000:0000:0000:0000:0000:0000:0000:0000" THEN "Unspecified"
  ELSE IF startsWith(expanded.val, "fe80:") THEN "Link-Local"
  ELSE IF startsWith(expanded.val, "ff") THEN "Multicast"
  ELSE IF startsWith(expanded.val, "fc") \/ startsWith(expanded.val, "fd")
  THEN "Unique Local"
  ELSE IF startsWith(expanded.val, "2001:0db8:") THEN "Documentation"
  ELSE IF startsWith(expanded.val, "2001:0000:") THEN "Teredo"
  ELSE IF startsWith(expanded.val, "2002:") THEN "6to4"
  ELSE "Global Unicast"

getAddressType(address) == typeOfExpanded(expandAddress(address))

\* getMulticastScope once the address is expanded
multicastScopeOfExpanded(expanded) ==
  IF expanded.threw THEN "Unknown"
  ELSE LET scopeField == Char(expanded.val, 4)
       IN CASE scopeField = "0" -> "Reserved"
            [] scopeField = "1" -> "Interface-Local"
            [] scopeField = "2" -> "Link-Local"
            [] scopeField = "3" -> "Reserved"
            [] scopeField = "4" -> "Admin-Local"
            [] scopeField = "5" -> "Site-Local"
            [] scopeField = "8" -> "Organization-Local"
            [] scopeField = "e" -> "Global"
            [] OTHER -> "Unknown"

getMulticastScope(address) == multicastScopeOfExpanded(expandAddress(address))

\* scopeMap[type] || 'Unknown'; scopeMap is built, Multicast entry included,
\* for every type
scopeOf(type, multicastScope) ==
  CASE type = "Loopback" -> "Host"
    [] type = "Unspecified" -> "None"
    [] type = "Link-Local" -> "Link"
    [] type = "Multicast" -> multicastScope
    [] type = "Unique Local" -> "Organization"
    [] type = "Documentation" -> "Documentation"
    [] type \in {"Teredo", "6to4", "Global Unicast"} -> "Global"
    [] OTHER -> "Unknown"

getAddressScope(address) == scopeOf(getAddressType(address), getMulticastScope(address))

\* patterns.CIDR, /^(.+)\/(\d{1,3})$/: the index of the "/" it matches, or 0
cidrMatch(address) ==
  LET k    == lastIndexOf(address, "/", Len(address))
      rest == SubSeq(address, k + 1, Len(address))
  IN IF k > 1 /\ Len(rest) >= 1 /\ Len(rest) <= 3 /\ allDigits(rest)
     THEN k ELSE 0

\* patterns.ZONE_ID, /^(.+)%(.+)$/: the index of the "%" it matches, or 0
zoneMatch(address) ==
  LET k == lastIndexOf(address, "%", Len(address) - 1)
  IN IF k > 1 THEN k ELSE 0

\* the object performValidation returns: prefix and zoneId are null unless
\* their pattern matched
validationResult(address, cleanAddress, expanded, hasPrefix, prefix, hasZone, zoneId) ==
  IF expanded.threw THEN expanded
  ELSE Return(withField(withField(
                [valid |-> TRUE,
                 original |-> address,
                 cleanAddress |-> cleanAddress,
                 expanded |-> expanded.val,
                 compressed |-> compressAddress(cleanAddress),
                 type |-> getAddressType(cleanAddress),
                 scope |-> getAddressScope(cleanAddress)],
                hasPrefix, "prefix", prefix),
                hasZone, "zoneId", zoneId))

\* performValidation once the prefix, the zone and the brackets are taken
\* off the address
validationOfClean(address, cleanAddress, hasPrefix, prefix, hasZone, zoneId) ==
  IF hasPrefix /\ (prefix < 0 \/ prefix > 128)
  THEN Throw("Prefixo CIDR inválido: /" \o toDecimalString(prefix)
             \o ". Deve estar entre 0 e 128")
  ELSE IF ~isValidFormat(cleanAddress)
  THEN Throw("Formato de endereço IPv6 inválido")
  ELSE validationResult(address, cleanAddress, expandAddress(cleanAddress),
                        hasPrefix, prefix, hasZone, zoneId)

\* performValidation once patterns.ZONE_ID is matched at z in noCidr
validationOfZone(address, noCidr, z, hasPrefix, prefix) ==
  validationOfClean(address,
                    stripBrackets(IF z # 0 THEN SubSeq(noCidr, 1, z - 1) ELSE noCidr),
                    hasPrefix, prefix, z # 0, SubSeq(noCidr, z + 1, Len(noCidr)))

\* performValidation once the prefix is taken off the address
validationOfNoCidr(address, noCidr, hasPrefix, prefix) ==
  validationOfZone(address, noCidr, zoneMatch(noCidr), hasPrefix, prefix)

\* performValidation once patterns.CIDR is matched at c
validationOfCidr(address, c) ==
  validationOfNoCidr(address, IF c # 0 THEN SubSeq(address, 1, c - 1) ELSE address,
                     c # 0, parseInt(SubSeq(address, c + 1, Len(address))))

performValidation(address) == validationOfCidr(address, cidrMatch(address))

\* the catch of validateIPv6 around performValidation
validationOutcome(r) ==
  IF r.threw THEN [valid |-> FALSE, error |-> r.val] ELSE r.val

validateIPv6(address) ==
  IF address = "" THEN [valid |-> FALSE, error |-> "Endereço deve ser uma string não vazia"]
  ELSE validationOutcome(performValidation(trim(address)))

-----------------------------------------------------------------------------
(* IPv6Utils: conversions to and from BigInt, network calculation *)

ADDRESS_BITS == 128

\* the try and catch of ipv6ToBigInt once the address is expanded
bigIntOfExpanded(address, expanded) ==
  LET v == IF expanded.threw THEN expanded
           ELSE bigFromHex(join(split(expanded.val, ":"), ""))
  IN IF v.threw
     THEN Throw("Falha ao converter " \o address \o " para BigInt: " \o v.val)
     ELSE v

ipv6ToBigInt(address) == bigIntOfExpanded(address, expandAddress(address))

\* hexStr.match(/.{4}/g): the successive runs of 4 characters
RECURSIVE chunks4(_)
chunks4(s) ==
  IF Len(s) < 4 THEN <<>>
  ELSE <<SubSeq(s, 1, 4)>> \o chunks4(SubSeq(s, 5, Len(s)))

bigIntToIPv6(bigIntValue) ==
  join(chunks4(padStart(bigToString16(bigIntValue), 32, "0")), ":")

\* calculateNetworkMask with the shift to the top of the 128 bits left out
calculateNetworkMaskUnshifted(prefixLength) ==
  IF prefixLength = NaN
  THEN Throw("The number NaN cannot be converted to a BigInt because it is not an integer")
  ELSE IF prefixLength < 0 \/ prefixLength > ADDRESS_BITS
  THEN Throw("Comprimento do prefixo deve estar entre 0 e 128")
  ELSE IF prefixLength = 0 THEN Return(big(0))
  ELSE Return(bigSub(bigShiftLeft(big(1), prefixLength), big(1)))

calculateNetworkMask(prefixLength) ==
  IF prefixLength = NaN
  THEN Throw("The number NaN cannot be converted to a BigInt because it is not an integer")
  ELSE IF prefixLength < 0 \/ prefixLength > ADDRESS_BITS
  THEN Throw("Comprimento do prefixo deve estar entre 0 e 128")
  ELSE IF prefixLength = 0 THEN Return(big(0))
  ELSE Return(bigShiftLeft(bigSub(bigShiftLeft(big(1), prefixLength), big(1)),
                           ADDRESS_BITS - prefixLength))

\* parseInt(prefixStr, 10) of the text after the first "/", undefined when
\* there is none
prefixOfParts(parts) == IF Len(parts) >= 2 THEN parseInt(parts[2]) ELSE NaN

\* getNetworkInfo with the address taken as the start of the range, without
\* the mask
networkInfoOfPartsUnmasked(validation, prefix, ipBigInt, mask) ==
  IF ~validation.valid
  THEN Throw("Erro ao calcular informações da rede: CIDR inválido")
  ELSE IF ipBigInt.threw
  THEN Throw("Erro ao calcular informações da rede: " \o ipBigInt.val)
  ELSE IF mask.threw
  THEN Throw("Erro ao calcular informações da rede: " \o mask.val)
  ELSE LET network   == ipBigInt.val
           broadcast == bigSub(bigAdd(network,
                                      bigShiftLeft(big(1), ADDRESS_BITS - prefix)),
                               big(1))
       IN Return([network |-> bigIntToIPv6(network),
                  broadcast |-> bigIntToIPv6(broadcast),
                  networkBigInt |-> network,
                  broadcastBigInt |-> broadcast,
                  prefix |-> prefix,
                  mask |-> mask.val,
                  hostBits |-> ADDRESS_BITS - prefix,
                  compressed |->
                    [network |-> compressAddress(bigIntToIPv6(network)),
                     broadcast |-> compressAddress(bigIntToIPv6(broadcast))]])

\* the try and catch of getNetworkInfo once the validation, the address and
\* the mask are computed; the display-only field totalAddresses is not carried
networkInfoOfParts(validation, prefix, ipBigInt, mask) ==
  IF ~validation.valid
  THEN Throw("Erro ao calcular informações da rede: CIDR inválido")
  ELSE IF ipBigInt.threw
  THEN Throw("Erro ao calcular informações da rede: " \o ipBigInt.val)
  ELSE IF mask.threw
  THEN Throw("Erro ao calcular informações da rede: " \o mask.val)
  ELSE LET network   == bigAnd(ipBigInt.val, mask.val)
           broadcast == bigSub(bigAdd(network,
                                      bigShiftLeft(big(1), ADDRESS_BITS - prefix)),
                               big(1))
       IN Return([network |-> bigIntToIPv6(network),
                  broadcast |-> bigIntToIPv6(broadcast),
                  networkBigInt |-> network,
                  broadcastBigInt |-> broadcast,
                  prefix |-> prefix,
                  mask |-> mask.val,
                  hostBits |-> ADDRESS_BITS - prefix,
                  compressed |->
                    [network |-> compressAddress(bigIntToIPv6(network)),
                     broadcast |-> compressAddress(bigIntToIPv6(broadcast))]])

getNetworkInfo(cidr) ==
  LET parts  == split(cidr, "/")
      prefix == prefixOfParts(parts)
  IN networkInfoOfParts(validateIPv6(cidr), prefix, ipv6ToBigInt(parts[1]),
                        calculateNetworkMask(prefix))

-----------------------------------------------------------------------------
(* OverlapEngine, after init() has set ipv6Utils *)

OVERLAP_TYPES ==
  [IDENTICAL |-> "identical",
   FIRST_CONTAINS_SECOND |-> "first_contains_second",
   SECOND_CONTAINS_FIRST |-> "second_contains_first",
   PARTIAL |-> "partial",
   ADJACENT |-> "adjacent",
   NO_OVERLAP |-> "no_overlap"]

SEVERITY_LEVELS ==
  [CRITICAL |-> [level |-> 4, label |-> "Crítico", color |-> "error", priority |-> "high"],
   HIGH |-> [level |-> 3, label |-> "Alto", color |-> "warning", priority |-> "high"],
   MEDIUM |-> [level |-> 2, label |-> "Médio", color |-> "warning", priority |-> "medium"],
   LOW |-> [level |-> 1, label |-> "Baixo", color |-> "info", priority |-> "low"],
   NONE |-> [level |-> 0, label |-> "Sem Conflito", color |-> "success", priority |-> "none"]]

\* a null text: the code only ever tests a nullable text for truthiness
null == ""

\* the catch of validateAndGetNetworkInfo around getNetworkInfo, and its result
networkInfoOutcome(cidr, validation, networkInfo) ==
  IF networkInfo.threw
  THEN Throw("Erro ao processar " \o cidr \o ": " \o networkInfo.val)
  ELSE Return(networkInfo.val @@ [original |-> cidr, validation |-> validation])

\* validateAndGetNetworkInfo once the text is validated
validatedNetworkInfo(cidr, validation) ==
  IF ~validation.valid
  THEN Throw("Erro ao processar " \o cidr \o ": CIDR inválido: " \o cidr)
  ELSE networkInfoOutcome(cidr, validation, getNetworkInfo(cidr))

validateAndGetNetworkInfo(cidr) ==
  IF ~includes(cidr, "/")
  THEN Throw("Erro ao processar " \o cidr \o ": CIDR inválido: " \o cidr
             \o " - deve incluir prefixo (ex: /64)")
  ELSE validatedNetworkInfo(cidr, validateIPv6(cidr))

sanitizeNetworkInfo(networkInfo) ==
  [f \in (DOMAIN networkInfo) \ {"networkBigInt", "broadcastBigInt", "mask"}
     |-> networkInfo[f]]
  @@ [networkBigIntStr |-> bigToString(networkInfo.networkBigInt),
      broadcastBigIntStr |-> bigToString(networkInfo.broadcastBigInt),
      maskStr |-> bigToString(networkInfo.mask)]

\* calculateDistance without the "- 1n": the distance between the two ends
calculateDistanceBetweenEnds(start1, end1, start2, end2) ==
  IF bigCmp(end1, start2) < 0 THEN bigSub(start2, end1)
  ELSE IF bigCmp(end2, start1) < 0 THEN bigSub(start1, end2)
  ELSE big(0)

calculateDistance(start1, end1, start2, end2) ==
  IF bigCmp(end1, start2) < 0 THEN bigSub(bigSub(start2, end1), big(1))
  ELSE IF bigCmp(end2, start1) < 0 THEN bigSub(bigSub(start1, end2), big(1))
  ELSE big(0)

\* calculateOverlapPercentage dividing by the larger of the two sizes
percentageOfLargerSize(overlapSize, size1, size2) ==
  LET largerSize == IF bigCmp(size1, size2) > 0 THEN size1 ELSE size2
      percentage == bigDiv(bigMulSmall(overlapSize, 100), largerSize)
  IN IF percentage.threw THEN 0 ELSE bigToNumber(percentage.val)

\* the try and catch of calculateOverlapPercentage once both sizes are computed;
\* Math.round(percentage * 100) / 100 of a whole number is the number
percentageOfSizes(overlapSize, size1, size2) ==
  LET smallerSize == IF bigCmp(size1, size2) < 0 THEN size1 ELSE size2
      percentage  == bigDiv(bigMulSmall(overlapSize, 100), smallerSize)
  IN IF percentage.threw THEN 0 ELSE bigToNumber(percentage.val)

calculateOverlapPercentage(network1, network2, overlapSize) ==
  percentageOfSizes(overlapSize,
    bigAdd(bigSub(network1.broadcastBigInt, network1.networkBigInt), big(1)),
    bigAdd(bigSub(network2.broadcastBigInt, network2.networkBigInt), big(1)))

\* the object analyzeNoOverlap returns
noOverlapResult(isAdjacent, distance) ==
  [hasOverlap |-> FALSE,
   type |-> IF isAdjacent THEN OVERLAP_TYPES.ADJACENT ELSE OVERLAP_TYPES.NO_OVERLAP,
   severity |-> SEVERITY_LEVELS.NONE,
   reason |-> IF isAdjacent THEN "Os blocos são adjacentes mas não se sobrepõem"
              ELSE "Os blocos não se sobrepõem",
   confidence |-> 100,
   details |-> [distance |-> bigToString(distance),
                isAdjacent |-> isAdjacent,
                gap |-> IF isAdjacent THEN "0" ELSE bigToString(distance)]]

analyzeNoOverlap(network1, network2, start1, end1, start2, end2) ==
  noOverlapResult(bigCmp(bigAdd(end1, big(1)), start2) = 0
                    \/ bigCmp(bigAdd(end2, big(1)), start1) = 0,
                  calculateDistance(start1, end1, start2, end2))

\* analyzeOverlapDetails testing the containment of the second block before
\* the equality: no pair is classified IDENTICAL
overlapKindContainmentFirst(network1, network2, start1, end1, start2, end2) ==
  IF bigCmp(start1, start2) <= 0 /\ bigCmp(end1, end2) >= 0
  THEN [type |-> OVERLAP_TYPES.FIRST_CONTAINS_SECOND,
        severity |-> SEVERITY_LEVELS.HIGH,
        reason |-> "O primeiro bloco (" \o network1.original
                   \o ") contém completamente o segundo ("
                   \o network2.original \o ")"]
  ELSE IF bigCmp(start2, start1) <= 0 /\ bigCmp(end2, end1) >= 0
  THEN [type |-> OVERLAP_TYPES.SECOND_CONTAINS_FIRST,
        severity |-> SEVERITY_LEVELS.HIGH,
        reason |-> "O segundo bloco (" \o network2.original
                   \o ") contém completamente o primeiro ("
                   \o network1.original \o ")"]
  ELSE [type |-> OVERLAP_TYPES.PARTIAL,
        severity |-> SEVERITY_LEVELS.MEDIUM,
        reason |-> "Os blocos se sobrepõem parcialmente"]

\* overlapType, severity and reason as analyzeOverlapDetails assigns them
overlapKind(network1, network2, start1, end1, start2, end2) ==
  IF bigCmp(start1, start2) = 0 /\ bigCmp(end1, end2) = 0
  THEN [type |-> OVERLAP_TYPES.IDENTICAL,
        severity |-> SEVERITY_LEVELS.CRITICAL,
        reason |-> "Os blocos são idênticos"]
  ELSE IF bigCmp(start1, start2) <= 0 /\ bigCmp(end1, end2) >= 0
  THEN [type |-> OVERLAP_TYPES.FIRST_CONTAINS_SECOND,
        severity |-> SEVERITY_LEVELS.HIGH,
        reason |-> "O primeiro bloco (" \o network1.original
                   \o ") contém completamente o segundo ("
                   \o network2.original \o ")"]
  ELSE IF bigCmp(start2, start1) <= 0 /\ bigCmp(end2, end1) >= 0
  THEN [type |-> OVERLAP_TYPES.SECOND_CONTAINS_FIRST,
        severity |-> SEVERITY_LEVELS.HIGH,
        reason |-> "O segundo bloco (" \o network2.original
                   \o ") contém completamente o primeiro ("
                   \o network1.original \o ")"]
  ELSE [type |-> OVERLAP_TYPES.PARTIAL,
        severity |-> SEVERITY_LEVELS.MEDIUM,
        reason |-> "Os blocos se sobrepõem parcialmente"]

\* the object analyzeOverlapDetails returns once the common range is computed;
\* the display-only field affectedAddresses is not carried
overlapOfRange(network1, network2, kind, overlapStart, overlapEnd) ==
  LET overlapSize == bigAdd(bigSub(overlapEnd, overlapStart), big(1))
  IN [hasOverlap |-> TRUE,
      type |-> kind.type,
      severity |-> kind.severity,
      reason |-> kind.reason,
      confidence |-> 100,
      details |-> [overlapStart |-> bigIntToIPv6(overlapStart),
                   overlapEnd |-> bigIntToIPv6(overlapEnd),
                   overlapSize |-> bigToString(overlapSize),
                   percentageOverlap |->
                     calculateOverlapPercentage(network1, network2, overlapSize)]]

analyzeOverlapDetails(network1, network2, start1, end1, start2, end2) ==
  overlapOfRange(network1, network2,
                 overlapKind(network1, network2, start1, end1, start2, end2),
                 IF bigCmp(start1, start2) > 0 THEN start1 ELSE start2,
                 IF bigCmp(end1, end2) < 0 THEN end1 ELSE end2)

\* analyzeOverlap with the first half of the test only: a first block that
\* starts after the second one is never found to overlap it
analyzeOverlapOneSided(network1, network2) ==
  IF ~(bigCmp(network1.networkBigInt, network2.networkBigInt) <= 0
       /\ bigCmp(network1.broadcastBigInt, network2.networkBigInt) >= 0)
  THEN analyzeNoOverlap(network1, network2,
                        network1.networkBigInt, network1.broadcastBigInt,
                        network2.networkBigInt, network2.broadcastBigInt)
  ELSE analyzeOverlapDetails(network1, network2,
                             network1.networkBigInt, network1.broadcastBigInt,
                             network2.networkBigInt, network2.broadcastBigInt)

analyzeOverlap(network1, network2) ==
  LET start1 == network1.networkBigInt
      end1   == network1.broadcastBigInt
      start2 == network2.networkBigInt
      end2   == network2.broadcastBigInt
      hasOverlap == (bigCmp(start1, start2) <= 0 /\ bigCmp(end1, start2) >= 0)
                    \/ (bigCmp(start2, start1) <= 0 /\ bigCmp(end2, start1) >= 0)
  IN IF ~hasOverlap
     THEN analyzeNoOverlap(network1, network2, start1, end1, start2, end2)
     ELSE analyzeOverlapDetails(network1, network2, start1, end1, start2, end2)

RECURSIVE checkOverlapAdvanced(_, _)

\* the object checkOverlap builds from the result of checkOverlapAdvanced,
\* which does not throw
simpleResult(result) ==
  withField(withField(withField(
    [reason |-> IF has(result, "reason") /\ result.reason # ""
                THEN result.reason
                ELSE IF has(result, "hasOverlap") /\ result.hasOverlap
                THEN "Os blocos se sobrepõem"
                ELSE "Os blocos não se sobrepõem"],
    has(result, "hasOverlap"), "hasOverlap", result.hasOverlap),
    has(result, "overlapType"), "type", result.overlapType),
    has(result, "severity"), "severity", result.severity)

checkOverlap(cidr1, cidr2) == simpleResult(checkOverlapAdvanced(cidr1, cidr2))

\* generateSuggestion with the test of the suggestion inverted
testedSuggestionInverted(suggestion, testResult) ==
  IF has(testResult, "hasOverlap") /\ testResult.hasOverlap
  THEN suggestion
  ELSE null

\* generateSuggestion from the test of the suggestion against wanPrefix
testedSuggestion(suggestion, testResult) ==
  IF ~(has(testResult, "hasOverlap") /\ testResult.hasOverlap)
  THEN suggestion
  ELSE null

\* generateSuggestion once suggestedBigInt is settled
suggestionOfBigInt(suggestedBigInt, prefixLength, wanPrefix) ==
  LET suggestedAddr  == bigIntToIPv6(suggestedBigInt)
      compressedAddr == compressAddress(suggestedAddr)
      suggestion     == compressedAddr \o "/" \o toDecimalString(prefixLength)
  IN testedSuggestion(suggestion, checkOverlap(suggestion, wanPrefix))

\* generateSuggestion trying the block before the anchor first
suggestionOfNetworkPreviousFirst(wanNetwork, prefixLength, wanPrefix) ==
  IF wanNetwork.threw \/ prefixLength = NaN THEN null
  ELSE LET increment == bigShiftLeft(big(1), ADDRESS_BITS - prefixLength)
           maxIPv6   == bigSub(bigShiftLeft(big(1), ADDRESS_BITS), big(1))
           next      == bigAdd(wanNetwork.val.networkBigInt, increment)
           previous  == bigSub(wanNetwork.val.networkBigInt, increment)
       IN IF bigCmp(previous, big(0)) < 0
          THEN IF bigCmp(next, maxIPv6) > 0 THEN null
               ELSE suggestionOfBigInt(next, prefixLength, wanPrefix)
          ELSE suggestionOfBigInt(previous, prefixLength, wanPrefix)

\* the try and catch of generateSuggestion once the network of wanPrefix is
\* looked up and the text after its first "/" is parsed: any throw returns null
suggestionOfNetwork(wanNetwork, prefixLength, wanPrefix) ==
  IF wanNetwork.threw \/ prefixLength = NaN THEN null
  ELSE LET increment == bigShiftLeft(big(1), ADDRESS_BITS - prefixLength)
           maxIPv6   == bigSub(bigShiftLeft(big(1), ADDRESS_BITS), big(1))
           next      == bigAdd(wanNetwork.val.networkBigInt, increment)
           previous  == bigSub(wanNetwork.val.networkBigInt, increment)
       IN IF bigCmp(next, maxIPv6) > 0
          THEN IF bigCmp(previous, big(0)) < 0 THEN null
               ELSE suggestionOfBigInt(previous, prefixLength, wanPrefix)
          ELSE suggestionOfBigInt(next, prefixLength, wanPrefix)

\* generateSuggestion taking the prefix length from lanPrefix
generateSuggestionSizedByLan(lanPrefix, wanPrefix) ==
  suggestionOfNetwork(getNetworkInfo(wanPrefix), prefixOfParts(split(lanPrefix, "/")),
                      wanPrefix)

\* lanPrefix is not read
generateSuggestion(lanPrefix, wanPrefix) ==
  suggestionOfNetwork(getNetworkInfo(wanPrefix), prefixOfParts(split(wanPrefix, "/")),
                      wanPrefix)

\* the recommendation addContextualRecommendations pushes for a suggestion
suggestionRecommendation(hasOverlap, suggestion) ==
  IF hasOverlap /\ suggestion # null
  THEN <<[type |-> "success", priority |-> "medium",
          title |-> "Sugestão Automática Disponível",
          suggestion |-> suggestion]>>
  ELSE <<>>

addContextualRecommendations(recommendations, analysis, network1, network2) ==
  recommendations
  \o (IF network1.validation.type # network2.validation.type
      THEN <<[type |-> "info", priority |-> "medium",
              title |-> "Tipos de Rede Diferentes"]>>
      ELSE <<>>)
  \o (IF network1.prefix > 80 \/ network2.prefix > 80
      THEN <<[type |-> "warning", priority |-> "low",
              title |-> "Prefixos Grandes Detectados"]>>
      ELSE <<>>)
  \o suggestionRecommendation(analysis.hasOverlap,
       IF analysis.hasOverlap
       THEN generateSuggestion(network2.original, network1.original)
       ELSE null)

generateRecommendations(analysis, network1, network2) ==
  IF ~analysis.hasOverlap
  THEN <<[type |-> "success", priority |-> "low", title |-> "Configuração Válida"]>>
       \o (IF analysis.type = OVERLAP_TYPES.ADJACENT
           THEN <<[type |-> "info", priority |-> "low", title |-> "Blocos Adjacentes"]>>
           ELSE <<>>)
  ELSE LET level == analysis.severity.level
       IN addContextualRecommendations(
            CASE level = 4 -> <<[type |-> "error", priority |-> "critical",
                                 title |-> "Conflito Crítico Detectado"]>>
              [] level = 3 -> <<[type |-> "warning", priority |-> "high",
                                 title |-> "Sobreposição Completa"]>>
              [] level = 2 -> <<[type |-> "warning", priority |-> "medium",
                                 title |-> "Sobreposição Parcial"]>>
              [] OTHER -> <<>>,
            analysis, network1, network2)

\* hasOverlap: null is the absent field
createErrorResult(message) ==
  [error |-> message, details |-> [performance |-> [cached |-> FALSE]]]

\* the result checkOverlapAdvanced builds from the analysis
advancedResult(cidr1, cidr2, network1, network2, overlapAnalysis) ==
  [hasOverlap |-> overlapAnalysis.hasOverlap,
   overlapType |-> overlapAnalysis.type,
   severity |-> overlapAnalysis.severity,
   reason |-> overlapAnalysis.reason,
   confidence |-> overlapAnalysis.confidence,
   details |->
     [cidr1 |-> cidr1,
      cidr2 |-> cidr2,
      network1 |-> sanitizeNetworkInfo(network1),
      network2 |-> sanitizeNetworkInfo(network2),
      analysis |-> overlapAnalysis,
      recommendations |-> generateRecommendations(overlapAnalysis, network1, network2),
      performance |-> [cached |-> FALSE]]]

\* the try of checkOverlapAdvanced once both texts are looked up; the catch
\* turns a throw of either lookup into an error result
advancedOfNetworks(cidr1, cidr2, network1, network2) ==
  IF network1.threw THEN createErrorResult(network1.val)
  ELSE IF network2.threw THEN createErrorResult(network2.val)
  ELSE advancedResult(cidr1, cidr2, network1.val, network2.val,
                      analyzeOverlap(network1.val, network2.val))

\* checkOverlapAdvanced when the result cache has no fresh entry for the two
\* texts: the result it computes
checkOverlapAdvanced(cidr1, cidr2) ==
  IF cidr1 = "" \/ cidr2 = ""
  THEN createErrorResult("Ambos os CIDRs devem ser fornecidos")
  ELSE advancedOfNetworks(cidr1, cidr2, validateAndGetNetworkInfo(cidr1),
                          validateAndGetNetworkInfo(cidr2))

-----------------------------------------------------------------------------
(* The result cache of the engine: this.cache, a Map, kept as the sequence   *)
(* of its entries [key, value, timestamp] in insertion order.                *)

CACHE_TTL == 300000

CACHE_MAX_SIZE == 500

\* a key made of the second text alone
cacheKeyOfSecond(cidr1, cidr2) == cidr2 \o "|{}"

\* `${cidr1}|${cidr2}|${JSON.stringify(options)}` for options = {}
cacheKey(cidr1, cidr2) == cidr1 \o "|" \o cidr2 \o "|{}"

\* the position of key in the Map, 0 when it has none
cacheIndex(entries, key) ==
  IF \E i \in 1..Len(entries) : entries[i].key = key
  THEN CHOOSE i \in 1..Len(entries) : entries[i].key = key
  ELSE 0

\* this.cache.delete(key)
cacheDelete(entries, key) == SelectSeq(entries, LAMBDA item : item.key # key)

\* this.cache.set(key, item): a key the Map has keeps its position
cacheSet(entries, key, item) ==
  IF cacheIndex(entries, key) # 0
  THEN [entries EXCEPT ![cacheIndex(entries, key)] = item]
  ELSE Append(entries, item)

\* getFromCache at time t: the value of a fresh entry, or a miss that deletes
\* the key
getFromCache(entries, t, key) ==
  LET i == cacheIndex(entries, key)
  IN IF i # 0 /\ t - entries[i].timestamp < CACHE_TTL
     THEN [hit |-> TRUE, value |-> entries[i].value, cache |-> entries]
     ELSE [hit |-> FALSE, cache |-> cacheDelete(entries, key)]

cleanExpiredCache(entries, t) ==
  SelectSeq(entries, LAMBDA item : ~(t - item.timestamp > CACHE_TTL))

\* a variant that removes the key written last
setAfterPurgeNewest(entries, t, key, value) ==
  cacheSet(IF Len(entries) >= CACHE_MAX_SIZE
           THEN SubSeq(entries, 1, Len(entries) - 1) ELSE entries,
           key, [key |-> key, value |-> value, timestamp |-> t])

\* setToCache once the expired entries are purged from a full cache
setAfterPurge(entries, t, key, value) ==
  cacheSet(IF Len(entries) >= CACHE_MAX_SIZE THEN Tail(entries) ELSE entries,
           key, [key |-> key, value |-> value, timestamp |-> t])

setToCache(entries, t, key, value) ==
  setAfterPurge(IF Len(entries) >= CACHE_MAX_SIZE
                THEN cleanExpiredCache(entries, t) ELSE entries,
                t, key, value)

\* cached.details.performance.cached = true, on the object the Map holds
markCached(entries, key) ==
  [entries EXCEPT ![cacheIndex(entries, key)].value.details.performance.cached = TRUE]

\* the suggestion that addContextualRecommendations pushed, null without one
recommendedSuggestion(result) ==
  LET suggested == SelectSeq(result.details.recommendations,
                             LAMBDA r : has(r, "suggestion"))
  IN IF suggested = <<>> THEN null ELSE suggested[1].suggestion

RECURSIVE checkOverlapAdvancedCached(_, _, _, _)

\* the cache after generateSuggestion's call
\* this.checkOverlap(suggestion, wanPrefix); generateSuggestion returns the
\* suggestion it tested because the block next to the anchor does not meet it
afterSuggestion(entries, t, suggestion, wanPrefix) ==
  IF suggestion = null THEN entries
  ELSE checkOverlapAdvancedCached(entries, t, suggestion, wanPrefix).cache

\* checkOverlapAdvanced after a miss: an error result is not stored
computedOutcome(entries, t, key, result) ==
  IF ~has(result, "hasOverlap")
  THEN [result |-> result, cache |-> entries]
  ELSE [result |-> result,
        cache |-> setToCache(afterSuggestion(entries, t, recommendedSuggestion(result),
                                             result.details.cidr1),
                             t, key, result)]

\* checkOverlapAdvanced from the lookup on
lookupOutcome(lookup, t, key, cidr1, cidr2) ==
  IF lookup.hit
  THEN [result |-> [lookup.value EXCEPT !.details.performance.cached = TRUE],
        cache |-> markCached(lookup.cache, key)]
  ELSE computedOutcome(lookup.cache, t, key, checkOverlapAdvanced(cidr1, cidr2))

\* checkOverlapAdvanced on the cache at time t: its result and the cache
\* it leaves
checkOverlapAdvancedCached(entries, t, cidr1, cidr2) ==
  IF cidr1 = "" \/ cidr2 = ""
  THEN [result |-> createErrorResult("Ambos os CIDRs devem ser fornecidos"),
        cache |-> entries]
  ELSE lookupOutcome(getFromCache(entries, t, cacheKey(cidr1, cidr2)), t,
                     cacheKey(cidr1, cidr2), cidr1, cidr2)

\* checkOverlap on the cache at time t
checkOverlapCached(outcome) ==
  [result |-> simpleResult(outcome.result), cache |-> outcome.cache]

\* generateSuggestion on the cache at time t
generateSuggestionCached(entries, t, suggestion, wanPrefix) ==
  [result |-> suggestion, cache |-> afterSuggestion(entries, t, suggestion, wanPrefix)]

-----------------------------------------------------------------------------
(* OverlapEngine: batch analysis *)

UpperLetters == "ABCDEFGHIJKLMNOPQRSTUVWXYZÍÉ"

LowerLetters == "abcdefghijklmnopqrstuvwxyzíé"

lowerChar(c) ==
  LET k == indexOf(UpperLetters, c, 1)
  IN IF k = 0 THEN c ELSE Char(LowerLetters, k)

RECURSIVE toLowerCase(_)
toLowerCase(s) ==
  IF Len(s) = 0 THEN ""
  ELSE lowerChar(Char(s, 1)) \o toLowerCase(SubSeq(s, 2, Len(s)))

\* Math.round(100 * n / d) for n >= 0 and d > 0
roundPercent(n, d) == (200 * n + d) \div (2 * d)

max(a, b) == IF a >= b THEN a ELSE b

\* severityBreakdown after the conflicts 1..k have been counted
RECURSIVE countSeverities(_, _)
countSeverities(conflicts, k) ==
  IF k = 0 THEN [critical |-> 0, high |-> 0, medium |-> 0, low |-> 0]
  ELSE LET severityBreakdown == countSeverities(conflicts, k - 1)
           conflict == conflicts[k]
       IN IF ~has(conflict, "severity") THEN severityBreakdown
          ELSE LET level == toLowerCase(conflict.severity.label)
               IN IF level \in DOMAIN severityBreakdown
                  THEN [severityBreakdown EXCEPT ![level] = @ + 1]
                  ELSE severityBreakdown

\* generateBatchStatistics without the Math.max(0, ...) around the score
generateBatchStatisticsUnclamped(results, conflicts) ==
  LET total   == Len(results)
      valid   == Len(SelectSeq(results, LAMBDA r : r.valid))
      invalid == total - valid
      conflictCount == Len(conflicts)
      healthScore == IF total > 0
                     THEN 100 - (invalid * 10) - (conflictCount * 15)
                     ELSE 100
  IN [total |-> total,
      valid |-> valid,
      invalid |-> invalid,
      conflictCount |-> conflictCount,
      severityBreakdown |-> countSeverities(conflicts, Len(conflicts)),
      healthScore |-> healthScore,
      validationRate |-> IF total > 0 THEN roundPercent(valid, total) ELSE 0,
      conflictRate |-> IF valid > 0 THEN roundPercent(conflictCount, valid) ELSE 0]

generateBatchStatistics(results, conflicts) ==
  LET total   == Len(results)
      valid   == Len(SelectSeq(results, LAMBDA r : r.valid))
      invalid == total - valid
      conflictCount == Len(conflicts)
      healthScore == IF total > 0
                     THEN max(0, 100 - (invalid * 10) - (conflictCount * 15))
                     ELSE 100
  IN [total |-> total,
      valid |-> valid,
      invalid |-> invalid,
      conflictCount |-> conflictCount,
      severityBreakdown |-> countSeverities(conflicts, Len(conflicts)),
      healthScore |-> healthScore,
      validationRate |-> IF total > 0 THEN roundPercent(valid, total) ELSE 0,
      conflictRate |-> IF valid > 0 THEN roundPercent(conflictCount, valid) ELSE 0]

generateBatchRecommendations(stats, conflicts) ==
  (IF stats.conflictCount = 0 /\ stats.invalid = 0
   THEN <<[type |-> "success", title |-> "Configuração Excelente"]>> ELSE <<>>)
  \o (IF stats.invalid > 0
      THEN <<[type |-> "error",
              title |-> toDecimalString(stats.invalid) \o " Prefixo(s) Inválido(s)"]>>
      ELSE <<>>)
  \o (IF stats.severityBreakdown.critical > 0
      THEN <<[type |-> "error",
              title |-> toDecimalString(stats.severityBreakdown.critical)
                        \o " Conflito(s) Crítico(s)"]>>
      ELSE <<>>)
  \o (IF stats.conflictRate > 25
      THEN <<[type |-> "warning", title |-> "Alta Taxa de Conflitos"]>> ELSE <<>>)

generateBatchSummary(results, conflicts) ==
  LET stats == generateBatchStatistics(results, conflicts)
  IN [status |-> IF stats.conflictCount > 0
                 THEN (IF stats.healthScore < 50 THEN "critical"
                       ELSE IF stats.healthScore < 75 THEN "warning"
                       ELSE "info")
                 ELSE IF stats.invalid > 0 THEN "warning"
                 ELSE "excellent",
      healthScore |-> stats.healthScore,
      recommendations |-> generateBatchRecommendations(stats, conflicts)]

\* results.sort((a, b) => a.index - b.index): a stable sort by index
RECURSIVE insertByIndex(_, _)
insertByIndex(sorted, r) ==
  IF Len(sorted) = 0 THEN <<r>>
  ELSE IF sorted[Len(sorted)].index <= r.index THEN Append(sorted, r)
  ELSE Append(insertByIndex(SubSeq(sorted, 1, Len(sorted) - 1), r), sorted[Len(sorted)])

RECURSIVE sortByIndex(_)
sortByIndex(results) ==
  IF Len(results) = 0 THEN <<>>
  ELSE insertByIndex(sortByIndex(SubSeq(results, 1, Len(results) - 1)),
                     results[Len(results)])

\* the body of the first loop of analyzeBatch for the entry of 0-based index i
validateEntry(checked, i, prefix, validation) ==
  IF validation.valid
  THEN [checked EXCEPT !.validPrefixes =
          Append(@, [index |-> i, prefix |-> prefix, validation |-> validation])]
  ELSE [checked EXCEPT !.results =
          Append(@, [index |-> i, prefix |-> prefix,
                     valid |-> FALSE, error |-> "Prefixo inválido"])]

\* the first loop of analyzeBatch over the entries 1..k:
\* the valid entries and the results of the invalid ones
RECURSIVE validateEntries(_, _)
validateEntries(prefixes, k) ==
  IF k = 0 THEN [validPrefixes |-> <<>>, results |-> <<>>]
  ELSE validateEntry(validateEntries(prefixes, k - 1), k - 1, prefixes[k],
                     validateIPv6(prefixes[k]))

\* the pair loop pushing a conflict for every comparison that ends without
\* an error, overlapping or not
conflictOfAnyResult(prefix1, prefix2, overlapResult) ==
  IF has(overlapResult, "hasOverlap")
  THEN <<[indices |-> <<prefix1.index, prefix2.index>>,
          prefixes |-> <<prefix1.prefix, prefix2.prefix>>,
          overlapType |-> overlapResult.overlapType,
          severity |-> overlapResult.severity,
          reason |-> overlapResult.reason,
          recommendations |-> overlapResult.details.recommendations]>>
  ELSE <<>>

\* the conflict the pair loop pushes for a result of checkOverlapAdvanced,
\* which does not throw
conflictOf(prefix1, prefix2, overlapResult) ==
  IF has(overlapResult, "hasOverlap") /\ overlapResult.hasOverlap
  THEN <<[indices |-> <<prefix1.index, prefix2.index>>,
          prefixes |-> <<prefix1.prefix, prefix2.prefix>>,
          overlapType |-> overlapResult.overlapType,
          severity |-> overlapResult.severity,
          reason |-> overlapResult.reason,
          recommendations |-> overlapResult.details.recommendations]>>
  ELSE <<>>

\* the body of the pair loop for the valid entries i < j, given the outcome
\* of its call of checkOverlapAdvanced
comparePair(compared, prefix1, prefix2, outcome) ==
  [conflicts |-> compared.conflicts \o conflictOf(prefix1, prefix2, outcome.result),
   cache |-> outcome.cache]

\* the pair loop from the pair (i, j) on: the conflicts pushed and the cache
RECURSIVE comparePairs(_, _, _, _, _)
comparePairs(compared, t, validPrefixes, i, j) ==
  IF i > Len(validPrefixes) THEN compared
  ELSE IF j > Len(validPrefixes)
  THEN comparePairs(compared, t, validPrefixes, i + 1, i + 2)
  ELSE comparePairs(
         comparePair(compared, validPrefixes[i], validPrefixes[j],
                     checkOverlapAdvancedCached(compared.cache, t,
                                                validPrefixes[i].prefix,
                                                validPrefixes[j].prefix)),
         t, validPrefixes, i, j + 1)

\* analyzeBatch without the final sort of the results
batchResultUnsorted(results, conflicts) ==
  [results |-> results,
   conflicts |-> conflicts,
   statistics |-> generateBatchStatistics(results, conflicts),
   summary |-> generateBatchSummary(results, conflicts)]

\* the object analyzeBatch returns; executionTime is not carried
batchResult(results, conflicts) ==
  [results |-> sortByIndex(results),
   conflicts |-> conflicts,
   statistics |-> generateBatchStatistics(results, conflicts),
   summary |-> generateBatchSummary(results, conflicts)]

\* analyzeBatch once the pair loop is done
batchOutcome(results, compared) ==
  [result |-> batchResult(results, compared.conflicts), cache |-> compared.cache]

\* analyzeBatch on the cache at time t: its result and the cache it leaves
analyzeBatch(entries, t, prefixes) ==
  LET checked == validateEntries(prefixes, Len(prefixes))
      validPrefixes == checked.validPrefixes
  IN batchOutcome(checked.results
                    \o [k \in 1..Len(validPrefixes) |->
                          [index |-> validPrefixes[k].index,
                           prefix |-> validPrefixes[k].prefix,
                           valid |-> TRUE,
                           type |-> validPrefixes[k].validation.type,
                           scope |-> validPrefixes[k].validation.scope]],
                  comparePairs([conflicts |-> <<>>, cache |-> entries], t,
                               validPrefixes, 1, 2))

\* analyzeBatch returning normally
returned(outcome) == [result |-> Return(outcome.result), cache |-> outcome.cache]

\* analyzeBatch of a value that is not an array. prefixes.length throws a
\* TypeError for null and undefined, which the outer catch rethrows; it is
\* undefined for a number and for an object without length, and i < undefined
\* is false, so nothing is analysed; a string has a length and prefixes[i] is
\* its i-th character.
analyzeBatchNonList(entries, t, prefixes) ==
  IF prefixes.kind \in {"null", "undefined"}
  THEN [result |-> Throw("Erro na análise em lote: Cannot read properties of "
                           \o prefixes.kind \o " (reading 'length')"),
        cache |-> entries]
  ELSE IF prefixes.kind = "string"
  THEN returned(analyzeBatch(entries, t,
                             [i \in 1..Len(prefixes.text) |-> Char(prefixes.text, i)]))
  ELSE returned(analyzeBatch(entries, t, <<>>))

-----------------------------------------------------------------------------
(* The result cache of IPv6Utils: this.cache, a Map, kept as the sequence   *)
(* of its entries [key, value, timestamp] in insertion order.  The          *)
(* operators named ...Call give the memoised calls of IPv6Utils.         *)

UTILS_CACHE_TTL == 300000

UTILS_CACHE_MAX_SIZE == 1000

\* Math.floor(this.CACHE_MAX_SIZE * 0.3)
utilsEvicted == (UTILS_CACHE_MAX_SIZE * 3) \div 10

\* a variant that serves an entry at the age UTILS_CACHE_TTL too
utilsHitAtTTL(entries, t, key) ==
  /\ cacheIndex(entries, key) # 0
  /\ t - entries[cacheIndex(entries, key)].timestamp <= UTILS_CACHE_TTL

\* getFromCache finds a fresh entry
utilsHit(entries, t, key) ==
  /\ cacheIndex(entries, key) # 0
  /\ t - entries[cacheIndex(entries, key)].timestamp < UTILS_CACHE_TTL

\* the value getFromCache returns on a hit
utilsValue(entries, key) == entries[cacheIndex(entries, key)].value

utilsCleanExpiredCache(entries, t) ==
  SelectSeq(entries, LAMBDA item : ~(t - item.timestamp > UTILS_CACHE_TTL))

\* the number of entries that entries.sort((a, b) => a[1].timestamp -
\* b[1].timestamp), a stable sort, puts before the i-th
sortedBefore(entries, i) ==
  Cardinality({j \in 1..Len(entries) :
                 \/ entries[j].timestamp < entries[i].timestamp
                 \/ entries[j].timestamp = entries[i].timestamp /\ j < i})

\* the entries at the positions first..last that are kept, in their order
RECURSIVE entriesAt(_, _, _, _)
entriesAt(entries, kept, first, last) ==
  IF first > last THEN <<>>
  ELSE IF first = last
  THEN (IF first \in kept THEN <<entries[first]>> ELSE <<>>)
  ELSE entriesAt(entries, kept, first, (first + last) \div 2)
         \o entriesAt(entries, kept, (first + last) \div 2 + 1, last)

\* entries.slice(0, n) of the sorted entries deleted from the Map
removeOldest(entries, n) ==
  entriesAt(entries, {i \in 1..Len(entries) : sortedBefore(entries, i) >= n},
            1, Len(entries))

\* a variant that deletes the entries sorted last
removeNewest(entries, n) ==
  entriesAt(entries,
            {i \in 1..Len(entries) : sortedBefore(entries, i) < Len(entries) - n},
            1, Len(entries))

\* a variant that removes nothing
utilsSetUnbounded(entries, t, key, value) ==
  cacheSet(entries, key, [key |-> key, value |-> value, timestamp |-> t])

\* setToCache once the expired entries are purged from a full cache
utilsSetAfterPurge(entries, t, key, value) ==
  cacheSet(IF Len(entries) >= UTILS_CACHE_MAX_SIZE
           THEN removeOldest(entries, utilsEvicted) ELSE entries,
           key, [key |-> key, value |-> value, timestamp |-> t])

utilsSetToCache(entries, t, key, value) ==
  utilsSetAfterPurge(IF Len(entries) >= UTILS_CACHE_MAX_SIZE
                     THEN utilsCleanExpiredCache(entries, t) ELSE entries,
                     t, key, value)

\* getCacheStats at time t
utilsGetCacheStats(entries, t) ==
  [total |-> Len(entries),
   valid |-> Len(SelectSeq(entries,
                           LAMBDA item : t - item.timestamp < UTILS_CACHE_TTL)),
   expired |-> Len(SelectSeq(entries,
                             LAMBDA item : ~(t - item.timestamp < UTILS_CACHE_TTL))),
   ttl |-> UTILS_CACHE_TTL,
   maxSize |-> UTILS_CACHE_MAX_SIZE]

\* a call that throws stores nothing
storeUnlessThrown(entries, t, key, outcome) ==
  IF outcome.threw THEN entries
  ELSE utilsSetToCache(entries, t, key, outcome.val)

\* a memoised call of IPv6Utils: the key it looks up, the outcome it computes
\* after a miss, and the memoised calls it makes while it computes it
memoCall(key, outcome, nested) ==
  [key |-> key, outcome |-> outcome, nested |-> nested]

RECURSIVE runCalls(_, _, _)

\* the cache after a memoised call: a hit leaves it as it is; after a miss the
\* nested calls are made and the outcome is stored
afterCall(entries, t, call) ==
  IF utilsHit(entries, t, call.key) THEN entries
  ELSE storeUnlessThrown(runCalls(cacheDelete(entries, call.key), t, call.nested),
                         t, call.key, call.outcome)

\* the cache after the calls, made one after the other; a list of calls is
\* run as its first half followed by its second half
runCalls(entries, t, calls) ==
  IF Len(calls) = 0 THEN entries
  ELSE IF Len(calls) = 1 THEN afterCall(entries, t, calls[1])
  ELSE CHOOSE after \in
         {runCalls(half, t, SubSeq(calls, Len(calls) \div 2 + 1, Len(calls))) :
            half \in {runCalls(entries, t, SubSeq(calls, 1, Len(calls) \div 2))}} : TRUE

expandKey(address) == "expand_" \o address

expandAddressCall(address) ==
  memoCall(expandKey(address), expandAddress(address), <<>>)

compressKey(address) == "compress_" \o address

\* compressAddress given the call of expandAddress that performCompression
\* makes
compressExpandedCall(address, expansion) ==
  memoCall(compressKey(address),
           Return(compressExpanded(address, expansion.outcome)), <<expansion>>)

compressAddressCall(address) ==
  compressExpandedCall(address, expandAddressCall(address))

\* the calls of performValidation on the clean address: expandAddress,
\* compressAddress, getAddressType, and getAddressScope, which asks the type
\* and the multicast scope; the last three expand the address
performValidationCalls(cleanAddress, expansion) ==
  <<expansion, compressExpandedCall(cleanAddress, expansion),
    expansion, expansion, expansion>>

validateKey(address) == "validate_" \o address

\* the result of performValidation, or the error result of the catch, is
\* stored; performValidation throws before it makes a call
validateIPv6Call(address, validation) ==
  memoCall(validateKey(address), Return(validation),
           IF validation.valid
           THEN performValidationCalls(validation.cleanAddress,
                                       expandAddressCall(validation.cleanAddress))
           ELSE <<>>)

\* validateIPv6 returning validation: an empty address is answered before
\* the lookup
validateIPv6Calls(address, validation) ==
  IF address = "" THEN <<>> ELSE <<validateIPv6Call(address, validation)>>

toBigIntKey(address) == "toBigInt_" \o address

\* ipv6ToBigInt given the call of expandAddress that it makes
bigIntOfExpandedCall(address, expansion) ==
  memoCall(toBigIntKey(address), bigIntOfExpanded(address, expansion.outcome),
           <<expansion>>)

ipv6ToBigIntCall(address) ==
  bigIntOfExpandedCall(address, expandAddressCall(address))

fromBigIntKey(bigIntValue) == "fromBigInt_" \o bigToString(bigIntValue)

bigIntToIPv6Call(bigIntValue) ==
  memoCall(fromBigIntKey(bigIntValue), Return(bigIntToIPv6(bigIntValue)), <<>>)

\* bigIntToIPv6 of each value
RECURSIVE formattedCalls(_)
formattedCalls(values) ==
  IF values = <<>> THEN <<>>
  ELSE <<bigIntToIPv6Call(Head(values))>> \o formattedCalls(Tail(values))

\* compressAddress of the address that each call of bigIntToIPv6 returns
RECURSIVE compressedCalls(_)
compressedCalls(formatted) ==
  IF formatted = <<>> THEN <<>>
  ELSE <<compressAddressCall(Head(formatted).outcome.val)>>
       \o compressedCalls(Tail(formatted))

\* the calls that build the result of getNetworkInfo, in the order of the
\* object literal, given the calls on the network and on the broadcast
networkResultCalls(formatted, compressed) ==
  <<formatted[1], formatted[2],
    formatted[1], compressed[1],
    formatted[2], compressed[2]>>

\* the calls of getNetworkInfo on a CIDR that is valid: up to the conversion
\* of the address when it throws or the mask does
validNetworkCalls(toBigInt, formatted) ==
  <<toBigInt>> \o networkResultCalls(formatted, compressedCalls(formatted))

networkInfoKey(cidr) == "networkInfo_" \o cidr

\* getNetworkInfo whose validation is validation, whose call of ipv6ToBigInt
\* is toBigInt and whose outcome is networkInfo
networkInfoCall(cidr, validation, toBigInt, networkInfo) ==
  memoCall(networkInfoKey(cidr), networkInfo,
           validateIPv6Calls(cidr, validation)
           \o (IF ~validation.valid THEN <<>>
               ELSE IF networkInfo.threw THEN <<toBigInt>>
               ELSE validNetworkCalls(
                      toBigInt,
                      formattedCalls(<<networkInfo.val.networkBigInt,
                                       networkInfo.val.broadcastBigInt>>))))

\* getNetworkInfo once the text is validated and split
networkInfoCallOfParts(cidr, validation, toBigInt, prefix) ==
  networkInfoCall(cidr, validation, toBigInt,
                  networkInfoOfParts(validation, prefix, toBigInt.outcome,
                                     calculateNetworkMask(prefix)))

getNetworkInfoCall(cidr, validation) ==
  networkInfoCallOfParts(cidr, validation, ipv6ToBigIntCall(split(cidr, "/")[1]),
                         prefixOfParts(split(cidr, "/")))

\* what a memoised call returns: the stored value on a hit
memoised(entries, t, key, computed) ==
  IF utilsHit(entries, t, key) THEN utilsValue(entries, key) ELSE computed

\* the same for a call that may throw
memoisedOutcome(entries, t, key, outcome) ==
  IF utilsHit(entries, t, key) THEN Return(utilsValue(entries, key)) ELSE outcome

\* the calls of preWarmCache
RECURSIVE preWarmCalls(_)
preWarmCalls(addresses) ==
  IF addresses = <<>> THEN <<>>
  ELSE validateIPv6Calls(Head(addresses), validateIPv6(Head(addresses)))
       \o <<expandAddressCall(Head(addresses)), compressAddressCall(Head(addresses))>>
       \o preWarmCalls(Tail(addresses))

commonAddresses == <<"::1", "::", "fe80::1", "2001:db8::1", "ff02::1", "fc00::1">>

preWarmCache(t) == runCalls(<<>>, t, preWarmCalls(commonAddresses))

-----------------------------------------------------------------------------
(* The calls the engine makes on IPv6Utils.  An operator named ...Calls     *)
(* gives the memoised calls that an operation of the engine makes, in       *)
(* their order.                                                             *)

\* validateAndGetNetworkInfo once the text is validated and getNetworkInfo
\* is called: the calls it makes, whether it throws, and the network it
\* returns
tracedNetworkOf(cidr, validation, networkCall) ==
  [calls |-> validateIPv6Calls(cidr, validation) \o <<networkCall>>,
   threw |-> networkCall.outcome.threw,
   network |-> networkInfoOutcome(cidr, validation, networkCall.outcome).val]

\* validateAndGetNetworkInfo once the text is validated
tracedValidated(cidr, validation) ==
  IF ~validation.valid
  THEN [calls |-> validateIPv6Calls(cidr, validation), threw |-> TRUE]
  ELSE tracedNetworkOf(cidr, validation, getNetworkInfoCall(cidr, validation))

tracedNetwork(cidr) ==
  IF ~includes(cidr, "/") THEN [calls |-> <<>>, threw |-> TRUE]
  ELSE tracedValidated(cidr, validateIPv6(cidr))

\* analyzeOverlapDetails formats the two ends of the overlap
analyzeOverlapDetailsCalls(start1, end1, start2, end2) ==
  <<bigIntToIPv6Call(IF bigCmp(start1, start2) > 0 THEN start1 ELSE start2),
    bigIntToIPv6Call(IF bigCmp(end1, end2) < 0 THEN end1 ELSE end2)>>

\* analyzeOverlap whose analysis has the given hasOverlap
analyzeOverlapCalls(network1, network2, hasOverlap) ==
  IF ~hasOverlap THEN <<>>
  ELSE analyzeOverlapDetailsCalls(network1.networkBigInt, network1.broadcastBigInt,
                                  network2.networkBigInt, network2.broadcastBigInt)

\* suggestedBigInt of generateSuggestion: the block after the anchor, the
\* one before it when that one is out of range, or none
suggestedBlock(networkBigInt, prefixLength) ==
  LET increment == bigShiftLeft(big(1), ADDRESS_BITS - prefixLength)
      maxIPv6   == bigSub(bigShiftLeft(big(1), ADDRESS_BITS), big(1))
  IN IF bigCmp(bigAdd(networkBigInt, increment), maxIPv6) <= 0
     THEN Return(bigAdd(networkBigInt, increment))
     ELSE IF bigCmp(bigSub(networkBigInt, increment), big(0)) >= 0
     THEN Return(bigSub(networkBigInt, increment))
     ELSE Throw("")

RECURSIVE checkOverlapAdvancedCalls(_, _, _, _)

\* generateSuggestion once the suggested address is compressed: the
\* suggestion is checked against wanPrefix
suggestionOfCompressedCalls(entries, t, compressed, prefixLength, wanPrefix) ==
  <<compressed>>
  \o checkOverlapAdvancedCalls(
       entries, t, compressed.outcome.val \o "/" \o toDecimalString(prefixLength),
       wanPrefix)

\* generateSuggestion once suggestedBigInt is settled: it is formatted and
\* compressed
suggestionOfBlockCalls(entries, t, block, prefixLength, wanPrefix) ==
  IF block.threw THEN <<>>
  ELSE <<bigIntToIPv6Call(block.val)>>
       \o suggestionOfCompressedCalls(
            entries, t, compressAddressCall(bigIntToIPv6(block.val)),
            prefixLength, wanPrefix)

\* generateSuggestion on the engine cache entries, given its call of
\* getNetworkInfo(wanPrefix)
generateSuggestionCalls(entries, t, wanPrefix, wanCall, prefixLength) ==
  <<wanCall>>
  \o (IF wanCall.outcome.threw \/ prefixLength = NaN THEN <<>>
      ELSE suggestionOfBlockCalls(
             entries, t,
             suggestedBlock(wanCall.outcome.val.networkBigInt, prefixLength),
             prefixLength, wanPrefix))

\* analyzeOverlap, then generateRecommendations, which asks a suggestion for
\* two blocks that overlap; first holds the calls made for the first text
advancedResultCalls(entries, t, first, network1, network2, hasOverlap) ==
  IF ~hasOverlap THEN <<>>
  ELSE analyzeOverlapCalls(network1, network2, hasOverlap)
       \o generateSuggestionCalls(entries, t, network1.original, first[Len(first)],
                                  prefixOfParts(split(network1.original, "/")))

\* the try of checkOverlapAdvanced: the second text is not looked up when
\* the first one throws
advancedOfNetworksCalls(entries, t, traced1, traced2) ==
  traced1.calls
  \o (IF traced1.threw THEN <<>>
      ELSE traced2.calls
           \o (IF traced2.threw THEN <<>>
               ELSE advancedResultCalls(
                      entries, t, traced1.calls, traced1.network, traced2.network,
                      analyzeOverlap(traced1.network, traced2.network).hasOverlap)))

\* checkOverlapAdvanced on the engine cache entries: nothing is asked of
\* IPv6Utils on a hit
checkOverlapAdvancedCalls(entries, t, cidr1, cidr2) ==
  IF cidr1 = "" \/ cidr2 = "" THEN <<>>
  ELSE IF getFromCache(entries, t, cacheKey(cidr1, cidr2)).hit THEN <<>>
  ELSE advancedOfNetworksCalls(cacheDelete(entries, cacheKey(cidr1, cidr2)), t,
                               tracedNetwork(cidr1), tracedNetwork(cidr2))

\* the pair loop of analyzeBatch from the pair (i, j) on
RECURSIVE comparePairsCalls(_, _, _, _, _)
comparePairsCalls(entries, t, validPrefixes, i, j) ==
  IF i > Len(validPrefixes) THEN <<>>
  ELSE IF j > Len(validPrefixes)
  THEN comparePairsCalls(entries, t, validPrefixes, i + 1, i + 2)
  ELSE checkOverlapAdvancedCalls(entries, t, validPrefixes[i].prefix,
                                 validPrefixes[j].prefix)
       \o comparePairsCalls(
            checkOverlapAdvancedCached(entries, t, validPrefixes[i].prefix,
                                       validPrefixes[j].prefix).cache,
            t, validPrefixes, i, j + 1)

\* the first loop of analyzeBatch validates every entry
RECURSIVE validateEntriesCalls(_)
validateEntriesCalls(prefixes) ==
  IF prefixes = <<>> THEN <<>>
  ELSE validateIPv6Calls(Head(prefixes), validateIPv6(Head(prefixes)))
       \o validateEntriesCalls(Tail(prefixes))

\* analyzeBatch: every entry is validated, then the valid ones are compared
analyzeBatchCalls(entries, t, prefixes) ==
  validateEntriesCalls(prefixes)
  \o comparePairsCalls(entries, t,
                       validateEntries(prefixes, Len(prefixes)).validPrefixes, 1, 2)

\* analyzeBatch of a value that is not an array: the characters of a string
\* are validated
analyzeBatchNonListCalls(entries, t, prefixes) ==
  IF prefixes.kind = "string"
  THEN analyzeBatchCalls(entries, t,
                         [i \in 1..Len(prefixes.text) |-> Char(prefixes.text, i)])
  ELSE <<>>

-----------------------------------------------------------------------------
(* The calls made on the engine.  A behaviour is one call: the request is  *)
(* drawn in the initial state and the action of its operation answers it.  *)

MaxAddress == 4

MaxBatch == 3

LongBatch == 5

AddressTexts ==
  {"2001:db8:a::", "2001:db8:a::1", "2001:db8:a:1::", "2001:db8:b::",
   "2001:DB8:A:0:0:0:0:0", "::", "ffff:ffff:ffff:ffff:ffff:ffff:ffff:ffff"}

PrefixTexts == {"/0", "/1", "/48", "/63", "/64", "/127", "/128"}

\* texts that are no plain CIDR: zone id, brackets, no prefix length, malformed
OtherTexts ==
  {"fe80::1%eth0/64", "[2001:db8:a::]/64", "2001:db8:a::", "2001:db8:a::/129",
   "not-an-ip", ""}

CidrTexts == {a \o p : a \in AddressTexts, p \in PrefixTexts} \cup OtherTexts

\* the texts given to the codec: addresses with zero runs of several lengths
\* and places, upper-case digits, stray colons, wrong groups and group
\* counts, and texts with a prefix length, a zone id or brackets
CodecTexts ==
  AddressTexts \cup OtherTexts
  \cup {"::1", "1::", "1:2:3:4:5:6:7:8", "FE80::ABCD", "fe80::abcd",
        "1:0:0:2:0:0:3:4", "1:0:0:2:0:0:0:3", "1:0:0:0:2:0:0:3",
        "1:0:2:0:3:0:4:5", "0:0:1:2:3:4:0:0", "0:0:0:1:2:0:0:0",
        "1:2:3:4:5:6:0:0", "0:1:2:3:4:5:6:7", "1:2:3:4:5:6:7:0",
        "0001:0020:0300:4000:0000:0000:0000:00ab", "1::2:0:0:3",
        "1::2:", ":1::2", "1:2:3:4:5:6:7:8::", "::1:2:3:4:5:6:7:8",
        "1:2:3:4:5:6:7:", ":1:2:3:4:5:6:7", "1::2::3", "1:::2", "12345::",
        "g::1", "1:2:3", "1:2:3:4:5:6:7:8:9", "1::2:3:4:5:6:7:8:9",
        "1:2:3:4:5:6:7:12345", "g:1:2:3:4:5:6:7",
        "::/0", "::1/128", "::/129", "::/999", "::/1234", "::/", "::/-1",
        "fe80::1%eth0", "[::1]", " ::1 "}

\* the texts compared pairwise
PairTexts ==
  {"2001:db8:a::/64", "2001:db8:a::1/64", "2001:db8:a:1::/64", "2001:db8:a::/63",
   "2001:db8:a::/48", "2001:db8:b::/48", "2001:DB8:A:0:0:0:0:0/128",
   "2001:db8:a::1/128", "::/0", "::/1",
   "ffff:ffff:ffff:ffff:ffff:ffff:ffff:ffff/128",
   "ffff:ffff:ffff:ffff:ffff:ffff:ffff:ffff/1",
   "fe80::1%eth0/64", "[2001:db8:a::]/64", "2001:db8:a::", "not-an-ip"}

LanTexts == {"2001:db8:a::/64", "2001:db8:a::1/128"}

BatchTexts ==
  {"2001:db8::1/64", "not-an-ip", "2001:db8::/32", "2001:db9::/32", "2001:db8::1"}

Batches ==
  UNION {[1..n -> BatchTexts] : n \in 0..MaxBatch}
  \cup {[i \in 1..LongBatch |-> t] : t \in BatchTexts}
  \cup {<<"2001:db8::1/64", "not-an-ip", "2001:db8::2/64">>}

\* the values given to analyzeBatch that are not arrays
NonLists ==
  {[kind |-> k] : k \in {"null", "undefined", "number", "object"}}
  \cup {[kind |-> "string", text |-> t] : t \in {"", "ab", "2001:db8::/32"}}

\* network objects for the ranges [a0, a1] within 0..MaxAddress
Ranges ==
  {[networkBigInt |-> big(a0), broadcastBigInt |-> big(a1),
    original |-> toDecimalString(a0) \o "-" \o toDecimalString(a1)] :
     a0 \in 0..MaxAddress, a1 \in 0..MaxAddress} 

Networks == {n \in Ranges : bigCmp(n.networkBigInt, n.broadcastBigInt) <= 0}

Requests ==
  {[op |-> "analyzeOverlap", network1 |-> n1, network2 |-> n2] :
     n1 \in Networks, n2 \in Networks}
  \cup {[op |-> "getNetworkInfo", cidr |-> c] : c \in CidrTexts}
  \cup {[op |-> "checkOverlapAdvanced", cidr1 |-> c1, cidr2 |-> c2] :
          c1 \in PairTexts, c2 \in PairTexts}
  \cup {[op |-> "checkOverlap", cidr1 |-> c, cidr2 |-> c] : c \in CidrTexts}
  \cup {[op |-> "checkOverlap", cidr1 |-> c1, cidr2 |-> c2] :
          c1 \in LanTexts, c2 \in OtherTexts}
  \cup {[op |-> "generateSuggestion", lanPrefix |-> l, wanPrefix |-> w] :
          l \in LanTexts, w \in CidrTexts}
  \cup {[op |-> "analyzeBatch", prefixes |-> b] : b \in Batches}
  \cup {[op |-> "analyzeBatchNonList", value |-> v] : v \in NonLists}
  \cup {[op |-> o, address |-> t] :
          o \in {"validateIPv6", "expandAddress", "compressAddress", "ipv6ToBigInt"},
          t \in CodecTexts}

Pending == [done |-> FALSE]

\* the OverlapChecker that its constructor leaves, before init() maps the
\* inputs of the page and starts any timer
constructedChecker ==
  [wanInput |-> "", lanInput |-> "",
   wanValid |-> FALSE, lanValid |-> FALSE, isChecking |-> FALSE,
   lastResult |-> null, validationTimeouts |-> {}, initialTimeout |-> FALSE,
   checks |-> <<>>]

Init ==
  /\ overlapChecker = constructedChecker
  /\ utilsCache = preWarmCache(0)
  /\ request \in Requests
  /\ response = Pending
  /\ cache = <<>>
  /\ now = 0

\* the answer of a call that leaves the result cache alone
Answer(op, value) ==
  /\ request.op = op
  /\ ~response.done
  /\ response' = [done |-> TRUE, value |-> value]
  /\ UNCHANGED <<overlapChecker, request, cache, now>>

\* the answer of a call that goes through the result cache
AnswerCached(op, outcome) ==
  /\ request.op = op
  /\ ~response.done
  /\ response' = [done |-> TRUE, value |-> outcome.result]
  /\ cache' = outcome.cache
  /\ UNCHANGED <<overlapChecker, request, now>>

\* the answer of analyzeOverlap, which formats the ends of an overlap
AnswerAnalysis(network1, network2, analysis) ==
  /\ Answer("analyzeOverlap", analysis)
  /\ utilsCache' = runCalls(utilsCache, now,
                          analyzeOverlapCalls(network1, network2, analysis.hasOverlap))

AnalyzeOverlap ==
  /\ request.op = "analyzeOverlap"
  /\ AnswerAnalysis(request.network1, request.network2,
                    analyzeOverlap(request.network1, request.network2))

\* the answer of a memoised call of IPv6Utils that may throw
AnswerMemoised(op, call) ==
  /\ Answer(op, memoisedOutcome(utilsCache, now, call.key, call.outcome))
  /\ utilsCache' = afterCall(utilsCache, now, call)

\* the answer of a memoised call of IPv6Utils that does not throw
AnswerMemoisedValue(op, call) ==
  /\ Answer(op, memoised(utilsCache, now, call.key, call.outcome.val))
  /\ utilsCache' = afterCall(utilsCache, now, call)

GetNetworkInfo ==
  /\ request.op = "getNetworkInfo"
  /\ AnswerMemoised("getNetworkInfo",
                    getNetworkInfoCall(request.cidr, validateIPv6(request.cidr)))

CheckOverlap ==
  /\ request.op = "checkOverlap"
  /\ AnswerCached("checkOverlap",
                  checkOverlapCached(
                    checkOverlapAdvancedCached(cache, now, request.cidr1, request.cidr2)))
  /\ utilsCache' = runCalls(utilsCache, now,
                          checkOverlapAdvancedCalls(cache, now, request.cidr1,
                                                    request.cidr2))

CheckOverlapAdvanced ==
  /\ request.op = "checkOverlapAdvanced"
  /\ AnswerCached("checkOverlapAdvanced",
                  checkOverlapAdvancedCached(cache, now, request.cidr1, request.cidr2))
  /\ utilsCache' = runCalls(utilsCache, now,
                          checkOverlapAdvancedCalls(cache, now, request.cidr1,
                                                    request.cidr2))

GenerateSuggestion ==
  /\ request.op = "generateSuggestion"
  /\ AnswerCached("generateSuggestion",
                  generateSuggestionCached(
                    cache, now,
                    generateSuggestion(request.lanPrefix, request.wanPrefix),
                    request.wanPrefix))
  /\ utilsCache' = runCalls(utilsCache, now,
                          generateSuggestionCalls(
                            cache, now, request.wanPrefix,
                            getNetworkInfoCall(request.wanPrefix,
                                               validateIPv6(request.wanPrefix)),
                            prefixOfParts(split(request.wanPrefix, "/"))))

AnalyzeBatch ==
  /\ request.op = "analyzeBatch"
  /\ AnswerCached("analyzeBatch", analyzeBatch(cache, now, request.prefixes))
  /\ utilsCache' = runCalls(utilsCache, now,
                          analyzeBatchCalls(cache, now, request.prefixes))

AnalyzeBatchNonList ==
  /\ request.op = "analyzeBatchNonList"
  /\ AnswerCached("analyzeBatchNonList",
                  analyzeBatchNonList(cache, now, request.value))
  /\ utilsCache' = runCalls(utilsCache, now,
                          analyzeBatchNonListCalls(cache, now, request.value))

\* the answer of validateIPv6: an empty address is answered before the lookup
AnswerValidation(address, validation) ==
  /\ Answer("validateIPv6",
            IF address = "" THEN validation
            ELSE memoised(utilsCache, now, validateKey(address), validation))
  /\ utilsCache' = runCalls(utilsCache, now, validateIPv6Calls(address, validation))

ValidateIPv6 ==
  /\ request.op = "validateIPv6"
  /\ AnswerValidation(request.address, validateIPv6(request.address))

ExpandAddress ==
  /\ request.op = "expandAddress"
  /\ AnswerMemoised("expandAddress", expandAddressCall(request.address))

CompressAddress ==
  /\ request.op = "compressAddress"
  /\ AnswerMemoisedValue("compressAddress", compressAddressCall(request.address))

Ipv6ToBigInt ==
  /\ request.op = "ipv6ToBigInt"
  /\ AnswerMemoised("ipv6ToBigInt", ipv6ToBigIntCall(request.address))

Next ==
  \/ AnalyzeOverlap
  \/ GetNetworkInfo
  \/ CheckOverlap
  \/ CheckOverlapAdvanced
  \/ GenerateSuggestion
  \/ AnalyzeBatch
  \/ AnalyzeBatchNonList
  \/ ValidateIPv6
  \/ ExpandAddress
  \/ CompressAddress
  \/ Ipv6ToBigInt

Spec == Init /\ [][Next]_vars

-----------------------------------------------------------------------------
(* A session of calls of the engine on one result cache, as time passes.    *)

\* the calls of a session: a /48 and a /64 inside it in both orders, the
\* /64 against the block next to it, which is the suggestion made for the
\* /64
SessionRequests ==
  {[op |-> "checkOverlapAdvanced", cidr1 |-> c[1], cidr2 |-> c[2]] :
     c \in {<<"2001:db8:a::/48", "2001:db8:a::/64">>,
            <<"2001:db8:a::/64", "2001:db8:a::/48">>,
            <<"2001:db8:a:1::/64", "2001:db8:a::/64">>}}

\* the times of the calls: an entry written at 0 is read at the age 0 and
\* at the age CACHE_TTL
SessionTimes == {0, CACHE_TTL}

SessionInit ==
  /\ overlapChecker = constructedChecker
  /\ request \in SessionRequests
  /\ response = Pending
  /\ cache = <<>>
  /\ utilsCache = preWarmCache(0)
  /\ now = 0

\* the caller makes another call
NextCall ==
  /\ response.done
  /\ request' \in SessionRequests
  /\ response' = Pending
  /\ UNCHANGED <<overlapChecker, cache, utilsCache, now>>

\* Date.now() grows between two calls
Tick ==
  /\ \E t \in SessionTimes : t > now /\ now' = t
  /\ UNCHANGED <<overlapChecker, request, response, cache, utilsCache>>

ClearCache ==
  /\ cache' = <<>>
  /\ UNCHANGED <<overlapChecker, request, response, utilsCache, now>>

SessionNext ==
  \/ CheckOverlapAdvanced
  \/ NextCall
  \/ Tick
  \/ ClearCache

SessionSpec == SessionInit /\ [][SessionNext]_vars

-----------------------------------------------------------------------------
(* Calls of the engine on a result cache that is full.                      *)

\* the i-th of CACHE_MAX_SIZE earlier calls: a host against the host ::,
\* which it does not overlap, so that the call stored one entry
fillerText(i) == "::" \o bigToString16(big(i)) \o "/128"

fillerEntry(i, t) ==
  [key |-> cacheKey(fillerText(i), "::/128"),
   value |-> checkOverlapAdvanced(fillerText(i), "::/128"),
   timestamp |-> t]

\* the cache after those calls, the first old of them made at 0 and the
\* others at 1
filledCache(old) ==
  [i \in 1..CACHE_MAX_SIZE |-> fillerEntry(i, IF i <= old THEN 0 ELSE 1)]

\* a pair that is not in the cache and stores one entry, one that stores
\* two (its own and the one of its suggestion), and one that is in the
\* cache
CapacityRequests ==
  {[op |-> "checkOverlapAdvanced", cidr1 |-> c[1], cidr2 |-> c[2]] :
     c \in {<<"2001:db8:a:1::/64", "2001:db8:a::/64">>,
            <<"2001:db8:a::/48", "2001:db8:a::/64">>,
            <<fillerText(CACHE_MAX_SIZE), "::/128">>}}

\* at CACHE_TTL + 1 an entry written at 1 has the age CACHE_TTL, and
\* one written at 0 an age above it
CapacityTimes == {1, CACHE_TTL + 1}

CapacityInit ==
  /\ overlapChecker = constructedChecker
  /\ cache \in {filledCache(old) : old \in {0, 1, CACHE_MAX_SIZE}}
  /\ request \in CapacityRequests
  /\ response = Pending
  /\ utilsCache = <<>>
  /\ now = 1

CapacityCall ==
  /\ response.done
  /\ request' \in CapacityRequests
  /\ response' = Pending
  /\ UNCHANGED <<overlapChecker, cache, utilsCache, now>>

CapacityTick ==
  /\ \E t \in CapacityTimes : t > now /\ now' = t
  /\ UNCHANGED <<overlapChecker, request, response, cache, utilsCache>>

\* the periodic cleanup
CleanExpiredCache ==
  /\ cache' = cleanExpiredCache(cache, now)
  /\ UNCHANGED <<overlapChecker, request, response, utilsCache, now>>

CapacityNext ==
  \/ CheckOverlapAdvanced
  \/ CapacityCall
  \/ CapacityTick
  \/ CleanExpiredCache

CapacitySpec == CapacityInit /\ [][CapacityNext]_vars

-----------------------------------------------------------------------------
(* A session of calls of IPv6Utils on its result cache, as time passes.     *)

\* an address of the pre-warmed cache given to each memoised operation, a
\* text that is no address, and a CIDR
UtilsRequests ==
  {[op |-> o, address |-> "2001:db8::1"] :
     o \in {"validateIPv6", "expandAddress", "compressAddress", "ipv6ToBigInt"}}
  \cup {[op |-> "expandAddress", address |-> "not-an-ip"],
        [op |-> "getNetworkInfo", cidr |-> "2001:db8::1/64"]}

\* an entry written at 0 has the age UTILS_CACHE_TTL at the second of these
\* times and an age above it at the last
UtilsTimes == {0, UTILS_CACHE_TTL, UTILS_CACHE_TTL + 1}

UtilsInit ==
  /\ overlapChecker = constructedChecker
  /\ utilsCache = preWarmCache(0)
  /\ request \in UtilsRequests
  /\ response = Pending
  /\ cache = <<>>
  /\ now = 0

UtilsCall ==
  /\ response.done
  /\ request' \in UtilsRequests
  /\ response' = Pending
  /\ UNCHANGED <<overlapChecker, cache, utilsCache, now>>

UtilsTick ==
  /\ \E t \in UtilsTimes : t > now /\ now' = t
  /\ UNCHANGED <<overlapChecker, request, response, cache, utilsCache>>

\* the periodic cleanup
UtilsCleanExpiredCache ==
  /\ utilsCache' = utilsCleanExpiredCache(utilsCache, now)
  /\ UNCHANGED <<overlapChecker, request, response, cache, now>>

UtilsClearCache ==
  /\ utilsCache' = <<>>
  /\ UNCHANGED <<overlapChecker, request, response, cache, now>>

UtilsNext ==
  \/ ValidateIPv6
  \/ ExpandAddress
  \/ CompressAddress
  \/ Ipv6ToBigInt
  \/ GetNetworkInfo
  \/ UtilsCall
  \/ UtilsTick
  \/ UtilsCleanExpiredCache
  \/ UtilsClearCache

UtilsSpec == UtilsInit /\ [][UtilsNext]_vars

-----------------------------------------------------------------------------
(* Calls on the two result caches when both are full.                       *)

\* the i-th address that the caller expanded after the start
utilsFillerAddress(i) == "1::" \o bigToString16(big(i))

utilsFillerEntry(i, t) ==
  [key |-> expandKey(utilsFillerAddress(i)),
   value |-> expandAddress(utilsFillerAddress(i)).val,
   timestamp |-> t]

\* the IPv6Utils cache once preWarmCache, at 0, and calls of expandAddress,
\* at t, have filled it
utilsFilledCache(t) ==
  preWarmCache(0)
    \o [i \in 1..(UTILS_CACHE_MAX_SIZE - Len(preWarmCache(0))) |->
          utilsFillerEntry(i, t)]

\* an address that is not in the cache, given to an operation that writes
\* one entry, and a pair that is not in the cache of the engine, whose
\* check writes the entries of its nested calls
FullRequests ==
  {[op |-> "expandAddress", address |-> "2001:db8::2"],
   [op |-> "checkOverlapAdvanced", cidr1 |-> "2001:db8:a:1::/64",
    cidr2 |-> "2001:db8:a::/64"]}

\* at UTILS_CACHE_TTL an entry written at 0 has the age UTILS_CACHE_TTL, and
\* one instant later an age above it
FullTimes == {1, UTILS_CACHE_TTL, UTILS_CACHE_TTL + 1}

FullInit ==
  /\ overlapChecker = constructedChecker
  /\ utilsCache \in {utilsFilledCache(t) : t \in {0, 1}}
  /\ cache = filledCache(1)
  /\ request \in FullRequests
  /\ response = Pending
  /\ now = 1

FullCall ==
  /\ response.done
  /\ request' \in FullRequests
  /\ response' = Pending
  /\ UNCHANGED <<overlapChecker, cache, utilsCache, now>>

FullTick ==
  /\ \E t \in FullTimes : t > now /\ now' = t
  /\ UNCHANGED <<overlapChecker, request, response, cache, utilsCache>>

FullNext ==
  \/ ExpandAddress
  \/ CheckOverlapAdvanced
  \/ FullCall
  \/ FullTick

FullSpec == FullInit /\ [][FullNext]_vars

-----------------------------------------------------------------------------
(* Calls of the memoised operations, repeated as time passes.               *)

\* each memoised operation of IPv6Utils on an address of the pre-warmed
\* cache, expandAddress on a text that is no address, getNetworkInfo on a
\* CIDR, and checkOverlapAdvanced on a pair of CIDRs
MemoRequests ==
  {[op |-> o, address |-> "2001:db8::1"] :
     o \in {"validateIPv6", "expandAddress", "compressAddress", "ipv6ToBigInt"}}
  \cup {[op |-> "expandAddress", address |-> "not-an-ip"],
        [op |-> "getNetworkInfo", cidr |-> "2001:db8::1/64"],
        [op |-> "checkOverlapAdvanced", cidr1 |-> "2001:db8:a:1::/64",
         cidr2 |-> "2001:db8:a::/64"]}

\* an entry written at 0 is read at the age 1 and at the age CACHE_TTL
MemoTimes == {0, 1, CACHE_TTL}

MemoInit ==
  /\ overlapChecker = constructedChecker
  /\ utilsCache = preWarmCache(0)
  /\ cache = <<>>
  /\ request \in MemoRequests
  /\ response = Pending
  /\ now = 0

MemoCall ==
  /\ response.done
  /\ request' \in MemoRequests
  /\ response' = Pending
  /\ UNCHANGED <<overlapChecker, cache, utilsCache, now>>

MemoTick ==
  /\ \E t \in MemoTimes : t > now /\ now' = t
  /\ UNCHANGED <<overlapChecker, request, response, cache, utilsCache>>

MemoNext ==
  \/ ValidateIPv6
  \/ ExpandAddress
  \/ CompressAddress
  \/ Ipv6ToBigInt
  \/ GetNetworkInfo
  \/ CheckOverlapAdvanced
  \/ MemoCall
  \/ MemoTick

MemoSpec == MemoInit /\ [][MemoNext]_vars

-----------------------------------------------------------------------------
(* The page of the overlap check (OverlapChecker): its two inputs, its      *)
(* debounced field validation and its check.  wanInput and lanInput are the *)
(* values of the inputs, validationTimeouts the timers of the Map with the  *)
(* value that each callback captured, initialTimeout the timer of           *)
(* setupInitialState, and checks the calls of checkOverlap that wait in     *)
(* performOverlapCheck, each with the texts it read.                        *)

\* the text that the user types in an input
PageTexts == {"not-an-ip"}

PageFields == {"wan", "lan"}

inputOf(fieldType) == IF fieldType = "wan" THEN "wanInput" ELSE "lanInput"

validOf(fieldType) == IF fieldType = "wan" THEN "wanValid" ELSE "lanValid"

timeoutKey(fieldType) == "validation_" \o fieldType

\* the page once init() has run: setupInitialState filled the empty inputs
\* and set its timer
PageInit ==
  /\ overlapChecker = [constructedChecker EXCEPT
                         !.wanInput = "2001:db8:a::1/64",
                         !.lanInput = "2001:db8:b::/48",
                         !.initialTimeout = TRUE]
  /\ request = [op |-> "none"]
  /\ response = Pending
  /\ cache = <<>>
  /\ utilsCache = preWarmCache(0)
  /\ now = 0

\* handleRealTimeValidation: the timer of the field is replaced by one that
\* holds the trimmed value of the input
handleRealTimeValidation(checker, fieldType) ==
  [checker EXCEPT !.validationTimeouts =
     {timeout \in @ : timeout.key # timeoutKey(fieldType)}
       \cup {[key |-> timeoutKey(fieldType),
              value |-> trim(checker[inputOf(fieldType)])]}]

\* performFieldValidation and updateFieldState
performFieldValidation(checker, fieldType, value) ==
  [checker EXCEPT ![validOf(fieldType)] =
     value # "" /\ validateIPv6(value).valid]

\* the callback of the timer of setupInitialState
InitialValidation ==
  /\ overlapChecker.initialTimeout
  /\ overlapChecker' =
       handleRealTimeValidation(
         handleRealTimeValidation(
           [overlapChecker EXCEPT !.initialTimeout = FALSE], "wan"), "lan")
  /\ UNCHANGED <<request, response, cache, utilsCache, now>>

\* the user changes the text of an input
InputEvent ==
  /\ \E fieldType \in PageFields : \E text \in PageTexts :
       /\ overlapChecker[inputOf(fieldType)] # text
       /\ overlapChecker' =
            handleRealTimeValidation(
              [overlapChecker EXCEPT ![inputOf(fieldType)] = text], fieldType)
  /\ UNCHANGED <<request, response, cache, utilsCache, now>>

\* handleKeyDown for Escape
KeyDownEscape ==
  /\ \E fieldType \in PageFields :
       overlapChecker' =
         handleRealTimeValidation(
           [overlapChecker EXCEPT ![inputOf(fieldType)] = ""], fieldType)
  /\ UNCHANGED <<request, response, cache, utilsCache, now>>

\* the callback of a timer of handleRealTimeValidation
ValidationTimeout ==
  /\ \E timeout \in overlapChecker.validationTimeouts :
       \E fieldType \in PageFields :
         /\ timeout.key = timeoutKey(fieldType)
         /\ overlapChecker' =
              [performFieldValidation(overlapChecker, fieldType, timeout.value)
                 EXCEPT !.validationTimeouts = @ \ {timeout}]
         /\ utilsCache' =
              runCalls(utilsCache, now,
                       validateIPv6Calls(timeout.value, validateIPv6(timeout.value)))
  /\ UNCHANGED <<request, response, cache, now>>

\* the guard of OverlapChecker.checkOverlap, which handleKeyDown tests
\* before it calls checkOverlap and which disables the button
canCheck(checker) ==
  checker.wanValid /\ checker.lanValid /\ ~checker.isChecking

\* OverlapChecker.checkOverlap up to its await: the texts read from the
\* inputs, isChecking
checkStarted(checker) ==
  [checker EXCEPT
     !.isChecking = TRUE,
     !.checks = Append(@, [wanPrefix |-> trim(checker.wanInput),
                           lanPrefix |-> trim(checker.lanInput)])]

\* the ways to start a check: the click on the button and the submit of the
\* form call checkOverlap, and handleKeyDown calls it for Enter once it has
\* made the test of the guard itself
CheckTriggers == {"click", "submit", "keydown"}

StartCheck ==
  /\ \E trigger \in CheckTriggers :
       /\ trigger = "keydown" => canCheck(overlapChecker)
       /\ canCheck(overlapChecker)
       /\ overlapChecker' = checkStarted(overlapChecker)
  /\ UNCHANGED <<request, response, cache, utilsCache, now>>

\* the timer of performOverlapCheck: the call of the engine and the rest of
\* checkOverlap
PerformOverlapCheck ==
  /\ overlapChecker.checks # <<>>
  /\ overlapChecker' =
       [overlapChecker EXCEPT
          !.lastResult =
             checkOverlapAdvancedCached(cache, now, Head(overlapChecker.checks).wanPrefix,
                                        Head(overlapChecker.checks).lanPrefix).result,
          !.isChecking = FALSE,
          !.checks = Tail(@)]
  /\ cache' = checkOverlapAdvancedCached(cache, now, Head(overlapChecker.checks).wanPrefix,
                                         Head(overlapChecker.checks).lanPrefix).cache
  /\ utilsCache' = runCalls(utilsCache, now,
                          checkOverlapAdvancedCalls(
                            cache, now, Head(overlapChecker.checks).wanPrefix,
                            Head(overlapChecker.checks).lanPrefix))
  /\ UNCHANGED <<request, response, now>>

PageNext ==
  \/ InitialValidation
  \/ InputEvent
  \/ KeyDownEscape
  \/ ValidationTimeout
  \/ StartCheck
  \/ PerformOverlapCheck

PageSpec == PageInit /\ [][PageNext]_vars

-----------------------------------------------------------------------------
(* Properties of the engine, stated on the answers of the calls. *)

answered(op) == response.done /\ request.op = op

\* a CIDR text written plainly, an address and "/" and a prefix length with
\* neither zone id nor brackets, that validateIPv6 accepts
validCidr(c) ==
  LET validation == validateIPv6(c)
  IN /\ validation.valid
     /\ has(validation, "prefix")
     /\ split(c, "/")[1] = validation.cleanAddress

\* s <= t as numbers, for two expanded addresses (8 groups of 4 hex digits)
RECURSIVE addressLe(_, _)
addressLe(s, t) ==
  IF Len(s) = 0 THEN TRUE
  ELSE IF Char(s, 1) = Char(t, 1)
  THEN addressLe(SubSeq(s, 2, Len(s)), SubSeq(t, 2, Len(t)))
  ELSE hexVal(Char(s, 1)) < hexVal(Char(t, 1))

\* bit i (bit 0 the lowest) of a non-negative BigInt
bitOf(x, i) == (limbAt(x.mag, (i \div LimbBits) + 1) \div pow2(i % LimbBits)) % 2

\* 0 <= x <= 2^128 - 1
isAddress128(x) == ~x.neg /\ Len(x.mag) * LimbBits <= ADDRESS_BITS

\* the two texts have ranges, computed by getNetworkInfo, with an address in common
rangesOverlap(c1, c2) ==
  LET n1 == getNetworkInfo(c1)
      n2 == getNetworkInfo(c2)
  IN /\ ~n1.threw /\ ~n2.threw
     /\ addressLe(n1.val.network, n2.val.broadcast)
     /\ addressLe(n2.val.network, n1.val.broadcast)

\* C1: analyzeOverlap reports hasOverlap = true exactly when a0 <= b1 and
\* b0 <= a1, for the ranges [a0, a1] and [b0, b1] of its two networks: on the
\* small ranges compared as numbers, and on the ranges checkOverlapAdvanced
\* computes from two CIDR texts, compared as their expanded addresses.
C1_OverlapIffRangesMeet ==
  /\ answered("analyzeOverlap") =>
       LET a0 == bigToNumber(request.network1.networkBigInt)
           a1 == bigToNumber(request.network1.broadcastBigInt)
           b0 == bigToNumber(request.network2.networkBigInt)
           b1 == bigToNumber(request.network2.broadcastBigInt)
       IN response.value.hasOverlap = (a0 <= b1 /\ b0 <= a1)
  /\ (answered("checkOverlapAdvanced") /\ has(response.value, "hasOverlap")) =>
       LET network1 == response.value.details.network1
           network2 == response.value.details.network2
       IN response.value.hasOverlap
            = (addressLe(network1.network, network2.broadcast)
               /\ addressLe(network2.network, network1.broadcast))

\* a first range that starts after the second one starts and overlaps it
C1_Witness ==
  /\ answered("analyzeOverlap")
  /\ response.value.hasOverlap
  /\ bigToNumber(request.network1.networkBigInt)
       > bigToNumber(request.network2.networkBigInt)
  /\ bigToNumber(request.network1.broadcastBigInt)
       > bigToNumber(request.network2.broadcastBigInt)

\* C2: two overlapping ranges are classified in this order: equal bounds
\* IDENTICAL with CRITICAL (level 4); else a0 <= b0 and a1 >= b1
\* FIRST_CONTAINS_SECOND with HIGH (3); else b0 <= a0 and b1 >= a1
\* SECOND_CONTAINS_FIRST with HIGH (3); otherwise PARTIAL with MEDIUM (2).
\* checkOverlap(A, A) is IDENTICAL and CRITICAL for every valid CIDR A.
C2_ClassificationOrder ==
  /\ (answered("analyzeOverlap") /\ response.value.hasOverlap) =>
       LET a0 == bigToNumber(request.network1.networkBigInt)
           a1 == bigToNumber(request.network1.broadcastBigInt)
           b0 == bigToNumber(request.network2.networkBigInt)
           b1 == bigToNumber(request.network2.broadcastBigInt)
           expected ==
             IF a0 = b0 /\ a1 = b1
             THEN <<OVERLAP_TYPES.IDENTICAL, SEVERITY_LEVELS.CRITICAL, 4>>
             ELSE IF a0 <= b0 /\ a1 >= b1
             THEN <<OVERLAP_TYPES.FIRST_CONTAINS_SECOND, SEVERITY_LEVELS.HIGH, 3>>
             ELSE IF b0 <= a0 /\ b1 >= a1
             THEN <<OVERLAP_TYPES.SECOND_CONTAINS_FIRST, SEVERITY_LEVELS.HIGH, 3>>
             ELSE <<OVERLAP_TYPES.PARTIAL, SEVERITY_LEVELS.MEDIUM, 2>>
       IN /\ response.value.type = expected[1]
          /\ response.value.severity = expected[2]
          /\ response.value.severity.level = expected[3]
  /\ (answered("checkOverlap") /\ request.cidr1 = request.cidr2
        /\ validCidr(request.cidr1)) =>
       /\ has(response.value, "hasOverlap") /\ response.value.hasOverlap
       /\ response.value.type = OVERLAP_TYPES.IDENTICAL
       /\ response.value.severity = SEVERITY_LEVELS.CRITICAL
       /\ response.value.severity.level = 4

\* two ranges that overlap with neither containing the other
C2_Witness ==
  /\ answered("analyzeOverlap")
  /\ response.value.hasOverlap
  /\ response.value.type = OVERLAP_TYPES.PARTIAL
  /\ response.value.severity.level = 2

\* C3: two ranges that do not overlap are ADJACENT exactly when a1 + 1 = b0
\* or b1 + 1 = a0, and NO_OVERLAP otherwise; the severity is NONE; the
\* distance reported is the number of addresses strictly between the two
\* ranges, and it is 0 exactly when the ranges are adjacent.
C3_NoOverlapAdjacencyAndDistance ==
  /\ (answered("analyzeOverlap") /\ ~response.value.hasOverlap) =>
       LET a0 == bigToNumber(request.network1.networkBigInt)
           a1 == bigToNumber(request.network1.broadcastBigInt)
           b0 == bigToNumber(request.network2.networkBigInt)
           b1 == bigToNumber(request.network2.broadcastBigInt)
           adjacent == a1 + 1 = b0 \/ b1 + 1 = a0
           between  == {x \in 0..MaxAddress :
                          (a1 < x /\ x < b0) \/ (b1 < x /\ x < a0)}
       IN /\ response.value.type = (IF adjacent THEN OVERLAP_TYPES.ADJACENT
                                    ELSE OVERLAP_TYPES.NO_OVERLAP)
          /\ response.value.severity = SEVERITY_LEVELS.NONE
          /\ response.value.severity.level = 0
          /\ response.value.details.isAdjacent = adjacent
          /\ response.value.details.distance = toDecimalString(Cardinality(between))
          /\ (response.value.details.distance = "0") = adjacent
  /\ (answered("checkOverlapAdvanced") /\ has(response.value, "hasOverlap")
        /\ ~response.value.hasOverlap) =>
       LET n1 == getNetworkInfo(request.cidr1).val
           n2 == getNetworkInfo(request.cidr2).val
           adjacent ==
             \/ bigAdd(n1.broadcastBigInt, big(1)) = n2.networkBigInt
             \/ bigAdd(n2.broadcastBigInt, big(1)) = n1.networkBigInt
       IN /\ response.value.overlapType = (IF adjacent THEN OVERLAP_TYPES.ADJACENT
                                           ELSE OVERLAP_TYPES.NO_OVERLAP)
          /\ response.value.severity = SEVERITY_LEVELS.NONE
          /\ (response.value.details.analysis.details.distance = "0") = adjacent

\* two ranges with two addresses between them
C3_Witness ==
  /\ answered("analyzeOverlap")
  /\ ~response.value.hasOverlap
  /\ response.value.type = OVERLAP_TYPES.NO_OVERLAP
  /\ response.value.details.distance = "2"

\* C4: for a valid CIDR of address a and prefix length p in 0..128,
\* getNetworkInfo returns base = a AND mask(p), where mask(0) = 0 and
\* mask(p) = (2^p - 1) * 2^(128 - p), and last = base + 2^(128 - p) - 1,
\* with base <= last and both within 0..2^128 - 1.
C4_NetworkRange ==
  (answered("getNetworkInfo") /\ validCidr(request.cidr)) =>
    /\ ~response.value.threw
    /\ LET info == response.value.val
           p    == validateIPv6(request.cidr).prefix
           a    == ipv6ToBigInt(split(request.cidr, "/")[1]).val
           base == info.networkBigInt
           last == info.broadcastBigInt
       IN /\ p \in 0..ADDRESS_BITS
          /\ info.prefix = p
          /\ \A i \in 0..(ADDRESS_BITS - 1) :
               /\ bitOf(info.mask, i) = (IF i >= ADDRESS_BITS - p THEN 1 ELSE 0)
               /\ bitOf(base, i) = (IF i >= ADDRESS_BITS - p THEN bitOf(a, i) ELSE 0)
               /\ bitOf(last, i) = (IF i >= ADDRESS_BITS - p THEN bitOf(a, i) ELSE 1)
          /\ (p = 0 => info.mask = big(0))
          /\ info.mask = bigShiftLeft(bigSub(bigShiftLeft(big(1), p), big(1)),
                                      ADDRESS_BITS - p)
          /\ base = bigAnd(a, info.mask)
          /\ last = bigSub(bigAdd(base, bigShiftLeft(big(1), ADDRESS_BITS - p)), big(1))
          /\ bigCmp(base, last) <= 0
          /\ isAddress128(info.mask) /\ isAddress128(base) /\ isAddress128(last)
          /\ addressLe(info.network, info.broadcast)

\* an address with bits set below the prefix length
C4_Witness ==
  /\ answered("getNetworkInfo")
  /\ request.cidr = "2001:db8:a:1::/63"
  /\ ~response.value.threw
  /\ response.value.val.compressed.network = "2001:db8:a::"
  /\ response.value.val.compressed.broadcast = "2001:db8:a:1:ffff:ffff:ffff:ffff"

\* C5: a text that generateSuggestion(conflicting, anchor) returns denotes a
\* range that does not overlap the anchor: checkOverlap of the suggestion and
\* the anchor gives hasOverlap = false.  With anchor and conflicting both
\* 2001:db8:a::/64 the suggestion is 2001:db8:a:1::/64.
C5_SuggestionAvoidsAnchor ==
  /\ (answered("generateSuggestion") /\ response.value # null) =>
       LET testResult == checkOverlap(response.value, request.wanPrefix)
       IN /\ has(testResult, "hasOverlap")
          /\ testResult.hasOverlap = FALSE
          /\ ~getNetworkInfo(response.value).threw
          /\ ~rangesOverlap(response.value, request.wanPrefix)
  /\ (answered("generateSuggestion") /\ request.lanPrefix = "2001:db8:a::/64"
        /\ request.wanPrefix = "2001:db8:a::/64") =>
       response.value = "2001:db8:a:1::/64"

\* the suggestion for anchor and conflicting both 2001:db8:a::/64
C5_Witness ==
  /\ answered("generateSuggestion")
  /\ request.lanPrefix = "2001:db8:a::/64"
  /\ request.wanPrefix = "2001:db8:a::/64"
  /\ response.value = "2001:db8:a:1::/64"

\* C6: the conflicts of analyzeBatch are exactly the pairs of valid entries
\* whose ranges overlap: each such pair once, by its two input indices, the
\* smaller first, and no other pair.
C6_ConflictsAreOverlappingPairs ==
  answered("analyzeBatch") =>
    LET prefixes  == request.prefixes
        conflicts == response.value.conflicts
        expected  == {<<i - 1, j - 1>> : <<i, j>> \in
                        {pair \in (1..Len(prefixes)) \X (1..Len(prefixes)) :
                           /\ pair[1] < pair[2]
                           /\ validateIPv6(prefixes[pair[1]]).valid
                           /\ validateIPv6(prefixes[pair[2]]).valid
                           /\ rangesOverlap(prefixes[pair[1]], prefixes[pair[2]])}}
    IN /\ {conflicts[k].indices : k \in 1..Len(conflicts)} = expected
       /\ Len(conflicts) = Cardinality(expected)
       /\ \A k \in 1..Len(conflicts) :
            /\ conflicts[k].indices[1] < conflicts[k].indices[2]
            /\ conflicts[k].prefixes = <<prefixes[conflicts[k].indices[1] + 1],
                                        prefixes[conflicts[k].indices[2] + 1]>>

\* an invalid entry before the two entries of an overlapping pair
C6_Witness ==
  /\ answered("analyzeBatch")
  /\ request.prefixes = <<"not-an-ip", "2001:db8::1/64", "2001:db8::/32">>
  /\ Len(response.value.conflicts) = 1
  /\ response.value.conflicts[1].indices = <<1, 2>>

\* C7: analyzeBatch answers every list: each input index is in the results
\* exactly once, in the order of the indices, flagged valid or invalid as
\* validateIPv6 decides; an invalid entry is in no conflict.
C7_EveryEntryReported ==
  answered("analyzeBatch") =>
    LET prefixes  == request.prefixes
        results   == response.value.results
        conflicts == response.value.conflicts
    IN /\ Len(results) = Len(prefixes)
       /\ \A k \in 1..Len(prefixes) :
            /\ results[k].index = k - 1
            /\ results[k].prefix = prefixes[k]
            /\ results[k].valid = validateIPv6(prefixes[k]).valid
       /\ \A k \in 1..Len(conflicts) : \A e \in 1..2 :
            /\ conflicts[k].indices[e] \in 0..(Len(prefixes) - 1)
            /\ results[conflicts[k].indices[e] + 1].valid
       /\ response.value.statistics.total = Len(prefixes)

\* an invalid entry between two valid ones that conflict
C7_Witness ==
  /\ answered("analyzeBatch")
  /\ request.prefixes = <<"2001:db8::1/64", "not-an-ip", "2001:db8::/32">>
  /\ ~response.value.results[2].valid
  /\ response.value.results[3].valid
  /\ Len(response.value.conflicts) = 1

\* C8: healthScore = max(0, 100 - 10 * invalid - 15 * conflicts), a number in
\* 0..100; for ["2001:db8::1/64", "not-an-ip", "2001:db8::2/64"] it is 75.
C8_HealthScore ==
  /\ answered("analyzeBatch") =>
       LET prefixes == request.prefixes
           invalidCount  == Cardinality({k \in 1..Len(prefixes) :
                                           ~validateIPv6(prefixes[k]).valid})
           conflictCount == Len(response.value.conflicts)
           score == 100 - 10 * invalidCount - 15 * conflictCount
       IN /\ response.value.statistics.healthScore = (IF score < 0 THEN 0 ELSE score)
          /\ response.value.statistics.healthScore \in 0..100
          /\ response.value.summary.healthScore
               = response.value.statistics.healthScore
  /\ (answered("analyzeBatch")
        /\ request.prefixes = <<"2001:db8::1/64", "not-an-ip", "2001:db8::2/64">>) =>
       response.value.statistics.healthScore = 75

\* a list whose conflicts take the score to the floor
C8_Witness ==
  /\ answered("analyzeBatch")
  /\ Len(response.value.conflicts) >= 7
  /\ response.value.statistics.healthScore = 0

\* C9: for each of critical, high, medium and low, the count in
\* severityBreakdown is the number of reported conflicts of that severity, so
\* the counts add up to the number of conflicts that carry a severity.
C9_SeverityBreakdownCounts ==
  answered("analyzeBatch") =>
    LET conflicts == response.value.conflicts
        breakdown == response.value.statistics.severityBreakdown
        count(severity) ==
          Cardinality({k \in 1..Len(conflicts) :
                         has(conflicts[k], "severity")
                           /\ conflicts[k].severity = severity})
    IN /\ breakdown.critical = count(SEVERITY_LEVELS.CRITICAL)
       /\ breakdown.high = count(SEVERITY_LEVELS.HIGH)
       /\ breakdown.medium = count(SEVERITY_LEVELS.MEDIUM)
       /\ breakdown.low = count(SEVERITY_LEVELS.LOW)
       /\ breakdown.critical + breakdown.high + breakdown.medium + breakdown.low
            = Cardinality({k \in 1..Len(conflicts) : has(conflicts[k], "severity")})

\* the prefix length and the base of the range a suggestion denotes, against
\* the prefix length p: the block next to the anchor, or the one before it
\* when the next one is beyond 2^128 - 1
suggestionSizedBy(suggestion, wanPrefix, p) ==
  LET suggested == getNetworkInfo(suggestion)
      anchor    == getNetworkInfo(wanPrefix).val
      increment == bigShiftLeft(big(1), ADDRESS_BITS - p)
      next      == bigAdd(anchor.networkBigInt, increment)
  IN /\ ~suggested.threw
     /\ suggested.val.prefix = p
     /\ split(suggestion, "/")[2] = toDecimalString(p)
     /\ bigAdd(bigSub(suggested.val.broadcastBigInt, suggested.val.networkBigInt),
               big(1)) = increment
     /\ ipv6ToBigInt(split(suggestion, "/")[1]).val
          = (IF isAddress128(next) THEN next
             ELSE bigSub(anchor.networkBigInt, increment))

C11_AtMostTwoCandidates ==
  answered("generateSuggestion") =>
    LET anchor == getNetworkInfo(request.wanPrefix)
    IN IF anchor.threw THEN response.value = null
       ELSE LET p         == anchor.val.prefix
                increment == bigShiftLeft(big(1), ADDRESS_BITS - p)
                next      == bigAdd(anchor.val.networkBigInt, increment)
                previous  == bigSub(anchor.val.networkBigInt, increment)
                candidate == IF isAddress128(next) THEN next ELSE previous
            IN /\ (p = 0) => response.value = null
               /\ (~isAddress128(next) /\ previous.neg) => response.value = null
               /\ (response.value # null) =>
                    /\ isAddress128(candidate)
                    /\ split(response.value, "/")[1]
                         = compressAddress(bigIntToIPv6(candidate))
                    /\ ipv6ToBigInt(split(response.value, "/")[1]).val = candidate
               /\ (response.value = null) => (~isAddress128(next) /\ previous.neg)

\* an anchor whose next block is beyond 2^128 - 1: the block before it
C11_Witness ==
  /\ answered("generateSuggestion")
  /\ request.wanPrefix = "ffff:ffff:ffff:ffff:ffff:ffff:ffff:ffff/1"
  /\ response.value = "::/1"

\* C12: for two overlapping ranges 0 <= percentageOverlap <= 100, and it is
\* 100 exactly when one range contains the other (identical ranges included).
C12_PercentageBounds ==
  /\ (answered("analyzeOverlap") /\ response.value.hasOverlap) =>
       LET a0 == bigToNumber(request.network1.networkBigInt)
           a1 == bigToNumber(request.network1.broadcastBigInt)
           b0 == bigToNumber(request.network2.networkBigInt)
           b1 == bigToNumber(request.network2.broadcastBigInt)
           common  == {x \in 0..MaxAddress : a0 <= x /\ x <= a1 /\ b0 <= x /\ x <= b1}
           size1   == a1 - a0 + 1
           size2   == b1 - b0 + 1
           smaller == IF size1 < size2 THEN size1 ELSE size2
           percentage == response.value.details.percentageOverlap
       IN /\ percentage \in 0..100
          /\ percentage = (Cardinality(common) * 100) \div smaller
          /\ (percentage = 100)
               = ((a0 <= b0 /\ b1 <= a1) \/ (b0 <= a0 /\ a1 <= b1))
  /\ (answered("checkOverlapAdvanced") /\ has(response.value, "hasOverlap")
        /\ response.value.hasOverlap) =>
       LET network1 == response.value.details.network1
           network2 == response.value.details.network2
           percentage == response.value.details.analysis.details.percentageOverlap
       IN /\ percentage \in 0..100
          /\ (percentage = 100)
               = \/ /\ addressLe(network1.network, network2.network)
                    /\ addressLe(network2.broadcast, network1.broadcast)
                  \/ /\ addressLe(network2.network, network1.network)
                     /\ addressLe(network1.broadcast, network2.broadcast)

\* two ranges of 3 and 4 addresses with 2 in common
C12_Witness ==
  /\ answered("analyzeOverlap")
  /\ response.value.hasOverlap
  /\ response.value.type = OVERLAP_TYPES.PARTIAL
  /\ response.value.details.percentageOverlap = 66

\* C14: for every valid address text T, compress(expand(T)) is a fixed point
\* of compress, and toInteger(expand(T)) = toInteger(compress(T)).
C14_CompressExpandRoundTrip ==
  (answered("compressAddress") /\ isValidFormat(request.address)) =>
    LET expanded   == expandAddress(request.address)
        compressed == compressAddress(expanded.val)
    IN /\ ~expanded.threw
       /\ compressAddress(compressed) = compressed
       /\ ~ipv6ToBigInt(expanded.val).threw
       /\ ~ipv6ToBigInt(response.value).threw
       /\ ipv6ToBigInt(expanded.val) = ipv6ToBigInt(response.value)

\* an address with several all-zero groups, one of them alone
C14_Witness ==
  /\ answered("compressAddress")
  /\ request.address = "1:0:0:0:2:0:0:3"
  /\ response.value = "1::2:0:0:3"

\* the group of 4 hex digits without its leading zeros, "0" when all are zeros
strippedGroup(g) ==
  LET k == CHOOSE k \in 1..4 :
             /\ \A j \in 1..(k - 1) : Char(g, j) = "0"
             /\ (k = 4 \/ Char(g, k) # "0")
  IN SubSeq(g, k, 4)

\* the runs <<start, length>> of two or more all-zero groups, none longer
zeroRuns(groups) ==
  {r \in (1..8) \X (2..8) :
     /\ r[1] + r[2] - 1 <= 8
     /\ \A i \in r[1]..(r[1] + r[2] - 1) : groups[i] = "0000"
     /\ (r[1] = 1 \/ groups[r[1] - 1] # "0000")
     /\ (r[1] + r[2] - 1 = 8 \/ groups[r[1] + r[2]] # "0000")}

\* C15: compress replaces with "::" exactly one run of all-zero groups, the
\* longest of length >= 2 and the leftmost of the longest; without such a run
\* no "::" is inserted; every other group loses its leading zeros, an all-zero
\* group becoming "0".
C15_LongestLeftmostRun ==
  (answered("compressAddress") /\ isValidFormat(request.address)) =>
    LET groups == split(expandAddress(request.address).val, ":")
        runs   == zeroRuns(groups)
        short(from, to) ==
          join([i \in 1..(to - from + 1) |-> strippedGroup(groups[from + i - 1])], ":")
    IN IF runs = {}
       THEN /\ response.value = short(1, 8)
            /\ ~includes(response.value, "::")
       ELSE LET run == CHOOSE r \in runs :
                         \A q \in runs : q[2] < r[2] \/ (q[2] = r[2] /\ q[1] >= r[1])
            IN /\ response.value
                    = short(1, run[1] - 1) \o "::" \o short(run[1] + run[2], 8)
               /\ Len(split(response.value, "::")) = 2

\* two runs of two all-zero groups: the first one is replaced
C15_Witness ==
  /\ answered("compressAddress")
  /\ request.address = "1:0:0:2:0:0:3:4"
  /\ response.value = "1::2:0:0:3:4"

\* C16: for every valid address text T, fromInteger(toInteger(T)) = expand(T),
\* also when T has upper-case hex digits.
C16_IntegerRoundTrip ==
  (answered("ipv6ToBigInt") /\ isValidFormat(request.address)) =>
    /\ ~response.value.threw
    /\ bigIntToIPv6(response.value.val) = expandAddress(request.address).val

\* a text written without zone id, brackets or spaces
plainText(text) ==
  /\ ~includes(text, "%") /\ ~includes(text, "[") /\ ~includes(text, "]")
  /\ ~includes(text, " ")

\* the defects of a plain text, in its address part and its prefix length
malformedAddress(text) ==
  LET slash  == indexOf(text, "/", 1)
      addr   == IF slash = 0 THEN text ELSE SubSeq(text, 1, slash - 1)
      prefix == SubSeq(text, slash + 1, Len(text))
      pieces == split(addr, ":")
      groups == filterNonEmpty(pieces)
      double == includes(addr, "::")
  IN \/ \E i \in 1..Len(groups) :
          ~(Len(groups[i]) \in 1..4 /\ allHexChars(groups[i]))
     \/ (startsWith(addr, ":") /\ ~startsWith(addr, "::"))
     \/ (Len(addr) >= 1 /\ Char(addr, Len(addr)) = ":"
           /\ ~(Len(addr) >= 2 /\ SubSeq(addr, Len(addr) - 1, Len(addr)) = "::"))
     \/ Len(split(addr, "::")) > 2
     \/ includes(addr, ":::")
     \/ (double /\ Len(groups) > 8)
     \/ (~double /\ Len(pieces) # 8)
     \/ (slash # 0 /\ prefix # "" /\ allDigits(prefix) /\ decimalValue(prefix) > 128)

\* C17: validateIPv6 returns valid = false for every text whose address part
\* has an invalid hex group (an empty group left by a stray single ":" at the
\* start or the end included), more than one "::", a ":::", more than 8
\* groups, a group count other than 8 without "::", or whose prefix length is
\* outside 0..128.
C17_MalformedRejected ==
  (answered("validateIPv6") /\ plainText(request.address)
     /\ malformedAddress(request.address)) =>
    ~response.value.valid

\* a CIDR text without its zone id and its brackets
plainCidr(cidr) ==
  LET slash   == indexOf(cidr, "/", 1)
      addr    == IF slash = 0 THEN cidr ELSE SubSeq(cidr, 1, slash - 1)
      rest    == IF slash = 0 THEN "" ELSE SubSeq(cidr, slash, Len(cidr))
      percent == indexOf(addr, "%", 1)
      unzoned == IF percent = 0 THEN addr ELSE SubSeq(addr, 1, percent - 1)
      opened  == IF startsWith(unzoned, "[")
                 THEN SubSeq(unzoned, 2, Len(unzoned)) ELSE unzoned
      closed  == IF Len(opened) >= 1 /\ Char(opened, Len(opened)) = "]"
                 THEN SubSeq(opened, 1, Len(opened) - 1) ELSE opened
  IN closed \o rest

\* two results agree on a field: both lack it or both have the same value
sameField(r1, r2, f) ==
  /\ has(r1, f) = has(r2, f)
  /\ has(r1, f) => r1[f] = r2[f]

\* C18: a zone id and surrounding brackets are stripped before parsing: for
\* valid CIDRs, checkOverlap of the texts carrying a zone id or brackets
\* returns the same hasOverlap, type and severity as checkOverlap of the
\* plain texts.
C18_ZoneAndBracketsStripped ==
  (/\ answered("checkOverlap")
   /\ validCidr(plainCidr(request.cidr1))
   /\ validCidr(plainCidr(request.cidr2))) =>
    LET plain == checkOverlap(plainCidr(request.cidr1), plainCidr(request.cidr2))
    IN /\ has(plain, "hasOverlap")
       /\ sameField(response.value, plain, "hasOverlap")
       /\ sameField(response.value, plain, "type")
       /\ sameField(response.value, plain, "severity")

\* a CIDR text that is malformed or lacks a prefix length
invalidCidr(cidr) ==
  \/ ~includes(cidr, "/")
  \/ ~validateIPv6(cidr).valid

\* C20: when either CIDR is invalid (malformed, or lacking a prefix length),
\* checkOverlap returns a structured error result: the error flag is set and
\* the reason is the failure message, never a reason stating that the blocks
\* do not overlap.
C20_InvalidGivesErrorResult ==
  (/\ answered("checkOverlap")
   /\ (invalidCidr(request.cidr1) \/ invalidCidr(request.cidr2))) =>
    /\ has(response.value, "error")
    /\ response.value.error = TRUE
    /\ response.value.reason
         = checkOverlapAdvanced(request.cidr1, request.cidr2).error
    /\ response.value.reason # "Os blocos não se sobrepõem"

\* C19: analyzeBatch fails with an input error when its argument is not a
\* list of texts (a number, an object without length, a single string), and
\* it does not fail for a list argument, whatever the entries are.
C19_NonListFails ==
  /\ answered("analyzeBatchNonList") => response.value.threw
  /\ answered("analyzeBatch") =>
       Len(response.value.results) = Len(request.prefixes)

\* Every entry of the result cache holds, under the key of its two texts,
\* the result that checkOverlapAdvanced computes for them: the call that
\* generateSuggestion makes reads from the cache what it would compute.
CacheCoherent ==
  \A i \in 1..Len(cache) :
    LET value == cache[i].value
    IN /\ cache[i].key = cacheKey(value.details.cidr1, value.details.cidr2)
       /\ [value EXCEPT !.details.performance.cached = FALSE]
            = checkOverlapAdvanced(value.details.cidr1, value.details.cidr2)
       /\ cache[i].timestamp <= now

\* C13: for valid CIDRs A and B, checkOverlapAdvanced(A, B) has type
\* FIRST_CONTAINS_SECOND exactly when checkOverlapAdvanced(B, A), called on
\* the cache as it is, has type SECOND_CONTAINS_FIRST, and both report the
\* same overlapSize.
C13_ContainmentSymmetry ==
  (/\ answered("checkOverlapAdvanced")
   /\ validCidr(request.cidr1)
   /\ validCidr(request.cidr2)) =>
    LET mirrored == checkOverlapAdvancedCached(cache, now, request.cidr2,
                                               request.cidr1).result
    IN /\ has(response.value, "overlapType")
       /\ has(mirrored, "overlapType")
       /\ (response.value.overlapType = OVERLAP_TYPES.FIRST_CONTAINS_SECOND)
            <=> (mirrored.overlapType = OVERLAP_TYPES.SECOND_CONTAINS_FIRST)
       /\ sameField(response.value.details.analysis.details,
                    mirrored.details.analysis.details, "overlapSize")

\* the answer comes from the cache, for a /48 containing a /64, while the
\* mirrored pair has an entry of its own
C13_Witness ==
  /\ answered("checkOverlapAdvanced")
  /\ request.cidr1 = "2001:db8:a::/48"
  /\ request.cidr2 = "2001:db8:a::/64"
  /\ response.value.details.performance.cached
  /\ response.value.overlapType = OVERLAP_TYPES.FIRST_CONTAINS_SECOND
  /\ has(response.value.details.analysis.details, "overlapSize")
  /\ cacheIndex(cache, cacheKey("2001:db8:a::/64", "2001:db8:a::/48")) # 0

\* 8 groups of exactly 4 hex digits
isExpandedText(text) ==
  LET groups == split(text, ":")
  IN /\ Len(groups) = 8
     /\ \A i \in 1..8 : Len(groups[i]) = 4 /\ allHexChars(groups[i])

\* C21: for every text that is not a valid IPv6 address, expandAddress and
\* compressAddress fail with an error: expandAddress never returns a string
\* that is not 8 groups of exactly 4 hex digits, and compressAddress never
\* returns its invalid input unchanged.
C21_InvalidTextFails ==
  /\ (answered("expandAddress") /\ ~validateIPv6(request.address).valid) =>
       response.value.threw
  /\ (answered("expandAddress") /\ ~response.value.threw) =>
       isExpandedText(response.value.val)
  /\ (answered("compressAddress") /\ ~validateIPv6(request.address).valid) =>
       response.value # request.address

\* C26: for ranges that getNetworkInfo computes from CIDR texts the
\* classification is never PARTIAL and the severity never MEDIUM, through
\* checkOverlapAdvanced, checkOverlap and analyzeBatch.
C26_NeverPartial ==
  /\ (answered("checkOverlapAdvanced") /\ has(response.value, "overlapType")) =>
       /\ response.value.overlapType # OVERLAP_TYPES.PARTIAL
       /\ response.value.severity # SEVERITY_LEVELS.MEDIUM
  /\ (answered("checkOverlap") /\ has(response.value, "type")) =>
       /\ response.value.type # OVERLAP_TYPES.PARTIAL
       /\ response.value.severity # SEVERITY_LEVELS.MEDIUM
  /\ answered("analyzeBatch") =>
       \A k \in 1..Len(response.value.conflicts) :
         /\ response.value.conflicts[k].overlapType # OVERLAP_TYPES.PARTIAL
         /\ response.value.conflicts[k].severity # SEVERITY_LEVELS.MEDIUM

\* an address inside its /64 against the /64 that follows: the host bits are
\* masked and the two blocks are adjacent
C26_Witness ==
  /\ answered("checkOverlapAdvanced")
  /\ request.cidr1 = "2001:db8:a::1/64"
  /\ request.cidr2 = "2001:db8:a:1::/64"
  /\ response.value.overlapType = OVERLAP_TYPES.ADJACENT

\* C27: in analyzeBatch every comparison of two entries that the batch
\* reports as valid ends with a definite hasOverlap, true or false, entries
\* written without a prefix length included; none ends in an error result
\* that is left out of the conflicts.
C27_ValidPairsCompared ==
  answered("analyzeBatch") =>
    LET results == response.value.results
    IN \A i \in 1..Len(results) : \A j \in (i + 1)..Len(results) :
         (results[i].valid /\ results[j].valid) =>
           has(checkOverlapAdvanced(results[i].prefix, results[j].prefix),
               "hasOverlap")

\* C25: a cached overlap result is read-only from the moment it is stored
\* until it expires or is evicted: a step that keeps the entries of the cache,
\* each under its key with its write timestamp, keeps their values, so a
\* cache hit changes no field of the stored result.
C25_StoredResultReadOnly ==
  [][(/\ Len(cache') = Len(cache)
      /\ \A i \in 1..Len(cache) :
           /\ cache'[i].key = cache[i].key
           /\ cache'[i].timestamp = cache[i].timestamp)
     => \A i \in 1..Len(cache) : cache'[i].value = cache[i].value]_vars

keysOf(entries) == {entries[i].key : i \in 1..Len(entries)}

\* the entries follow each other in the order of their write timestamps
TimestampOrder ==
  \A i \in 1..(Len(cache) - 1) : cache[i].timestamp <= cache[i + 1].timestamp

\* the entries of before whose key is not kept are its first added ones, and
\* none of them is newer than an entry whose key is kept
frontEvicted(before, kept, added) ==
  /\ Cardinality(keysOf(before) \ kept) = added
  /\ \A i \in 1..Len(before) : before[i].key \notin kept => i <= added
  /\ \A i \in 1..added : \A j \in 1..Len(before) :
       before[j].key \in kept => before[i].timestamp <= before[j].timestamp

\* C28: the insertion order of the OverlapEngine cache is always the order
\* of the write timestamps, and a call that finds the cache at capacity
\* with no entry to purge evicts one entry for each key it adds, each of
\* them from the front and with a timestamp no later than that of any
\* entry it keeps
C28_OldestEvicted ==
  /\ []TimestampOrder
  /\ [][(/\ Len(cache) >= CACHE_MAX_SIZE
         /\ cache' # cache
         /\ cleanExpiredCache(cache, now) = cache)
        => frontEvicted(cache, keysOf(cache'),
                        Cardinality(keysOf(cache') \ keysOf(cache)))]_vars

\* a call at time 1 found the full cache, evicted the first entry and
\* added its own
C28_Witness ==
  /\ answered("checkOverlapAdvanced")
  /\ now = 1
  /\ Len(cache) = CACHE_MAX_SIZE
  /\ cache[1].key = cacheKey(fillerText(2), "::/128")
  /\ cache[Len(cache)].key = cacheKey(request.cidr1, request.cidr2)

\* C24: after any sequence of calls, cleanups and clears the IPv6Utils
\* cache holds at most its CACHE_MAX_SIZE entries and the OverlapEngine
\* cache at most its own
C24_CachesBounded ==
  /\ Len(utilsCache) <= UTILS_CACHE_MAX_SIZE
  /\ Len(cache) <= CACHE_MAX_SIZE

\* a check made at time 1 found both caches full: the engine's cache gave
\* up its first entry for the result, and the cache of IPv6Utils its
\* oldest entries for those of the nested calls
C24_Witness ==
  /\ answered("checkOverlapAdvanced")
  /\ now = 1
  /\ Len(cache) = CACHE_MAX_SIZE
  /\ cacheIndex(cache, cacheKey(fillerText(1), "::/128")) = 0
  /\ cache[Len(cache)].key = cacheKey(request.cidr1, request.cidr2)
  /\ Len(utilsCache) > UTILS_CACHE_MAX_SIZE - utilsEvicted
  /\ Len(utilsCache) < UTILS_CACHE_MAX_SIZE
  /\ cacheIndex(utilsCache, validateKey("::1")) = 0
  /\ cacheIndex(utilsCache, networkInfoKey(request.cidr1)) # 0

\* the keys of the entries that getFromCache refuses at time t
refusedKeys(entries, t) ==
  {entries[i].key : i \in {j \in 1..Len(entries) :
                              ~(t - entries[j].timestamp < UTILS_CACHE_TTL)}}

\* the keys of the entries that cleanExpiredCache deletes at time t
purgedKeys(entries, t) == keysOf(entries) \ keysOf(utilsCleanExpiredCache(entries, t))

\* a write of key that found before at capacity and left after: the expired
\* entries are gone, other entries only if the cache was still at capacity
\* without the expired ones, and then utilsEvicted of them, none newer than
\* an entry that stays, and key is in the cache
purgedThenOldest(before, after, key, expired) ==
  /\ cacheIndex(after, key) # 0
  /\ expired \cap keysOf(after) = {}
  /\ keysOf(after) \ {key} \subseteq keysOf(before)
  /\ Cardinality(keysOf(before) \ (keysOf(after) \cup expired))
       = IF Len(before) - Cardinality(expired) >= UTILS_CACHE_MAX_SIZE
         THEN utilsEvicted ELSE 0
  /\ \A i \in 1..Len(before) :
       before[i].key \notin (keysOf(after) \cup expired) =>
         \A j \in 1..Len(before) :
           before[j].key \in keysOf(after) =>
             before[i].timestamp <= before[j].timestamp

\* expandAddress answers a text that has no entry and writes its expansion
\* to a cache at capacity
writesAtCapacity ==
  /\ request.op = "expandAddress"
  /\ ~response.done
  /\ response'.done
  /\ ~response'.value.threw
  /\ cacheIndex(utilsCache, expandKey(request.address)) = 0
  /\ Len(utilsCache) >= UTILS_CACHE_MAX_SIZE

\* C23: a write to the IPv6Utils cache at capacity first purges the expired
\* entries, the ones that a lookup refuses; only if the cache is still at
\* capacity does it remove others, and then the oldest 30% of the capacity
\* by write timestamp, no removed entry being newer than a kept one, before
\* it inserts the new entry
C23_PurgeThenOldest ==
  [][writesAtCapacity =>
       purgedThenOldest(utilsCache, utilsCache', expandKey(request.address),
                        refusedKeys(utilsCache, now))]_vars

\* the same with the expired entries taken as cleanExpiredCache takes them,
\* those of an age above UTILS_CACHE_TTL
PurgedByOwnTestThenOldest ==
  [][writesAtCapacity =>
       purgedThenOldest(utilsCache, utilsCache', expandKey(request.address),
                        purgedKeys(utilsCache, now))]_vars

\* the memoised operations, validateIPv6 of "" aside, which returns before
\* the lookup
memoisedOps ==
  {"validateIPv6", "expandAddress", "compressAddress", "ipv6ToBigInt",
   "getNetworkInfo", "checkOverlapAdvanced"}

calledMemoised ==
  /\ request.op \in memoisedOps
  /\ request.op = "validateIPv6" => request.address # ""

\* the key of the call
memoKey ==
  CASE request.op = "validateIPv6" -> validateKey(request.address)
    [] request.op = "expandAddress" -> expandKey(request.address)
    [] request.op = "compressAddress" -> compressKey(request.address)
    [] request.op = "ipv6ToBigInt" -> toBigIntKey(request.address)
    [] request.op = "getNetworkInfo" -> networkInfoKey(request.cidr)
    [] request.op = "checkOverlapAdvanced" ->
         cacheKey(request.cidr1, request.cidr2)

\* the cache of the call
memoEntries(engineCache, utilsEntries) ==
  IF request.op = "checkOverlapAdvanced" THEN engineCache ELSE utilsEntries

\* the call ended in an error: it threw, or returned an error result
memoFailed(answer) ==
  CASE request.op \in {"expandAddress", "ipv6ToBigInt", "getNetworkInfo"} ->
         answer.threw
    [] request.op = "checkOverlapAdvanced" -> ~has(answer, "hasOverlap")
    [] OTHER -> FALSE

\* the value that the call returned
memoReturned(answer) ==
  IF request.op \in {"expandAddress", "ipv6ToBigInt", "getNetworkInfo"}
  THEN answer.val ELSE answer

\* the entry of key is served from time from up to, and not at, time to
servedDuring(entries, key, from, to) ==
  /\ cacheIndex(entries, key) # 0
  /\ \A t \in MemoTimes \cup {from, to - 1} :
       (from <= t /\ t < to) =>
         t - entries[cacheIndex(entries, key)].timestamp < CACHE_TTL

\* a memoised operation answers
answersMemoised ==
  /\ calledMemoised
  /\ ~response.done
  /\ response'.done

\* C22 as stated: after a call of a memoised operation with key K at time
\* t, a call with K before t + TTL returns the stored value without
\* recomputing: the call leaves K an entry that holds the value returned
\* and that a lookup serves at every time from t up to t + TTL
C22_OncePerWindow ==
  [][answersMemoised =>
       /\ servedDuring(memoEntries(cache', utilsCache'), memoKey,
                       now, now + CACHE_TTL)
       /\ utilsValue(memoEntries(cache', utilsCache'), memoKey)
            = memoReturned(response'.value)]_vars

\* entries after a call that gave answer at time t: if the call did not
\* fail K has an entry that holds the value returned, written less than
\* CACHE_TTL ago and served until it has that age; if it failed K has no
\* entry
storedWhileFresh(entries, t, answer) ==
  IF memoFailed(answer)
  THEN cacheIndex(entries, memoKey) = 0
  ELSE /\ cacheIndex(entries, memoKey) # 0
       /\ utilsValue(entries, memoKey) = memoReturned(answer)
       /\ entries[cacheIndex(entries, memoKey)].timestamp <= t
       /\ t - entries[cacheIndex(entries, memoKey)].timestamp < CACHE_TTL
       /\ servedDuring(entries, memoKey, t,
                       entries[cacheIndex(entries, memoKey)].timestamp + CACHE_TTL)

\* a call whose key has an entry of an age below the TTL makes no call and
\* no write: the caches stay as they are, but for the mark that
\* checkOverlapAdvanced leaves on its entry
servedWithoutCompute ==
  servedDuring(memoEntries(cache, utilsCache), memoKey, now, now + 1) =>
    /\ utilsCache' = utilsCache
    /\ cache' = IF request.op = "checkOverlapAdvanced"
                THEN markCached(cache, memoKey) ELSE cache

\* C22: a call of a memoised operation that computes a value stores it, and
\* until the entry is CACHE_TTL old every call with its key returns the
\* stored value without computing or writing anything; a call that fails
\* stores nothing, and no call returns a value that is CACHE_TTL old or
\* older
C22_OncePerStoredWindow ==
  [][answersMemoised =>
       /\ storedWhileFresh(memoEntries(cache', utilsCache'), now,
                           response'.value)
       /\ servedWithoutCompute]_vars

\* a check made at 0 stored its result, and the same check at 1 returned
\* the stored result
C22_Witness ==
  /\ answered("checkOverlapAdvanced")
  /\ now = 1
  /\ cache[cacheIndex(cache, memoKey)].timestamp = 0
  /\ response.value.details.performance.cached
  /\ response.value = utilsValue(cache, memoKey)

\* field validation accepts the text
acceptedText(text) == text # "" /\ validateIPv6(text).valid

\* C30: whenever checkOverlap passes its guard and calls the engine, the WAN
\* and LAN texts it read from the inputs are texts that field validation
\* accepted, and at most one check is in flight
C30_ChecksValidatedTexts ==
  /\ \A i \in 1..Len(overlapChecker.checks) :
       /\ acceptedText(overlapChecker.checks[i].wanPrefix)
       /\ acceptedText(overlapChecker.checks[i].lanPrefix)
  /\ Len(overlapChecker.checks) <= 1

\* at most one check is in flight, and isChecking tells whether one is
OneCheckInFlight ==
  /\ Len(overlapChecker.checks) <= 1
  /\ overlapChecker.isChecking <=> overlapChecker.checks # <<>>

\* C29: at any moment, once cleanExpiredCache has run the IPv6Utils cache
\* holds no entry that getFromCache refuses at that moment, and
\* getCacheStats counts no expired entry
C29_ExpiryAgreed ==
  /\ utilsGetCacheStats(utilsCleanExpiredCache(utilsCache, now), now).expired = 0
  /\ \A i \in 1..Len(utilsCleanExpiredCache(utilsCache, now)) :
       utilsHit(utilsCleanExpiredCache(utilsCache, now), now,
                utilsCleanExpiredCache(utilsCache, now)[i].key)

=============================================================================
